---- MODULE Spec2Model ----
(***************************************************************************)
(* Ferrari F1 newsletter: the content curation pipeline                    *)
(* (src/src/content_filter.py), the summarization fallback chain           *)
(* (src/src/summarizer.py), the subscriber store                           *)
(* (src/src/subscriber_manager.py) and the delivery of the newsletter      *)
(* (src/src/email_sender.py, src/src/main.py).                             *)
(*                                                                         *)
(* Text is a sequence of one-character strings, so that lower-casing,      *)
(* substring tests, prefixes and the difflib similarity ratio are computed *)
(* and not assumed.                                                        *)
(***************************************************************************)
EXTENDS Integers, Sequences, FiniteSets, TLC

VARIABLES
    articles,          \* deduplicate: the list the current call was given
    idx,               \* deduplicate: position of the outer for loop (1-based)
    unique_articles,   \* deduplicate: the accumulating kept list
    dd_pc,             \* deduplicate: "idle" | "loop" | "returned"
    dd_call,           \* deduplicate: 1 = call on the input, 2 = call on its own output
    dd_input,          \* deduplicate: the list given to the first call
    dd_first,          \* deduplicate: what the first call returned
    rk_articles,       \* prioritize: the list it was given
    sorted_articles,   \* prioritize: the list it returns
    rk_pc,             \* prioritize: "idle" | "called" | "returned"
    sel_articles,      \* select_top_articles: the list it was given
    sel_idx,           \* select_top_articles: position of the for loop (1-based)
    featured,          \* select_top_articles: the three lists it fills
    regular,
    technical,
    max_featured,      \* select_top_articles: the three capacities
    max_regular,
    max_technical,
    sel_pc,            \* select_top_articles: "idle" | "loop" | "returned"
    summary,           \* summarize_article: the summary argument
    full_text,         \* summarize_article: the full_text argument, then the fetched text
    url,               \* summarize_article: the url argument ("" when absent)
    text_to_summarize, \* summarize_article: the text the chain works on
    result,            \* summarize_article: the extractive result, then the returned text
    sum_pc,            \* summarize_article: "idle" | "start" | "gate" | "generative" |
                       \*   "extractive" | "scrub" | "cap" | "returned" | "raised"
    ls_instance,       \* LocalSummarizer._instance: "None" | "loaded" | "unloaded"
    fetch_called,      \* fetch_article_content was called
    generative_tried,  \* the try block of the generative stage was entered
    extractive_calls,  \* calls of extractive_summarize so far
    ai_summary,        \* summarize_article: what ai_agent.summarize returned (<<>>: nothing)
    ls_inits,          \* LocalSummarizer.__init__: how many times it has run
    sum_calls,         \* summarize_article: calls made so far in this process
    ex_text,           \* extractive_summarize: the text argument
    ex_n,              \* extractive_summarize: the num_sentences argument
    ex_picked,         \* extractive_summarize: positions of the sentences of the result
    ex_result,         \* extractive_summarize: the text it returns
    ex_pc,             \* extractive_summarize: "idle" | "called" | "returned"
    cat_article,       \* _categorize: the article argument
    cat_result,        \* _categorize: the category it returns
    cat_pc,            \* _categorize: "idle" | "called" | "returned"
    pa_articles,       \* process_articles: the article objects of the list it was given
    ferrari_articles,  \* process_articles: what filter_ferrari_content returned
    pa_unique,         \* process_articles: what deduplicate returned
    prioritized,       \* process_articles: what prioritize returned
    selected,          \* process_articles: the bundle of select_top_articles
    pa_pc,             \* process_articles: "idle" | "start" | "filtered" | "deduplicated" |
                       \*   "prioritized" | "selected" | "returned"
    pa_available,      \* process_articles: SUMMARIZER_AVAILABLE, as line 199 read it
    pa_outcomes,       \* _summarize_articles: what summarize_article did for each
                       \*   article, in the order of the calls
    cb_text,           \* clean_bot_messages: the text argument
    cb_result,         \* clean_bot_messages: the text it returns
    cb_pc,             \* clean_bot_messages: "idle" | "called" | "returned"
    sub_rows,          \* subscribers table: the rows [email, active], in insertion order
    sub_result,        \* subscribe / unsubscribe: the dict the last call returned
    sub_log,           \* the calls made so far: [op, email as given, success]
    resend_api_key,    \* EmailSender: RESEND_API_KEY is set
    username,          \* EmailSender: SMTP_USERNAME is set
    password,          \* EmailSender: SMTP_PASSWORD is set
    resend_answer,     \* what resend.Emails.send does: [ok, message of the exception]
    smtp_answer,       \* what _send_via_smtp returns
    resend_error,      \* EmailSender.send: the local resend_error (<<>>: None)
    resend_tried,      \* _send_via_resend was called
    smtp_tried,        \* _send_via_smtp was called
    em_result,         \* EmailSender.send: the tuple it returns (<<>> before)
    em_pc,             \* EmailSender.send: "idle" | "called" | "smtp" | "returned"
    nl_branch,         \* NewsletterGenerator.send: the branch of `if success` taken
    nl_result,         \* NewsletterGenerator.send: the value it returns (<<>> before)
    nl_pc              \* NewsletterGenerator.send: "idle" | "called" | "sending" | "returned"

ddVars == <<articles, idx, unique_articles, dd_pc, dd_call, dd_input, dd_first>>
rkVars == <<rk_articles, sorted_articles, rk_pc>>
selVars == <<sel_articles, sel_idx, featured, regular, technical,
             max_featured, max_regular, max_technical, sel_pc>>

sumVars == <<summary, full_text, url, text_to_summarize, result, sum_pc,
             ls_instance, fetch_called, generative_tried, extractive_calls,
             ai_summary, ls_inits, sum_calls>>

exVars == <<ex_text, ex_n, ex_picked, ex_result, ex_pc>>

catVars == <<cat_article, cat_result, cat_pc>>

paVars == <<pa_articles, ferrari_articles, pa_unique, prioritized, selected, pa_pc,
            pa_available, pa_outcomes>>

cbVars == <<cb_text, cb_result, cb_pc>>

subVars == <<sub_rows, sub_result, sub_log>>

sendVars == <<resend_api_key, username, password, resend_answer, smtp_answer,
              resend_error, resend_tried, smtp_tried, em_result, em_pc,
              nl_branch, nl_result, nl_pc>>

vars == <<ddVars, rkVars, selVars, sumVars, exVars, catVars, paVars, cbVars, subVars, sendVars>>

\* what an operation leaves alone: the state of the other operations
allButDedup == <<rkVars, selVars, sumVars, exVars, catVars, paVars, cbVars, subVars, sendVars>>
allButRank == <<ddVars, selVars, sumVars, exVars, catVars, paVars, cbVars, subVars, sendVars>>
allButSelect == <<ddVars, rkVars, sumVars, exVars, catVars, paVars, cbVars, subVars, sendVars>>
allButSummarize == <<ddVars, rkVars, selVars, exVars, catVars, paVars, cbVars, subVars, sendVars>>
allButExtract == <<ddVars, rkVars, selVars, sumVars, catVars, paVars, cbVars, subVars, sendVars>>
allButCategorize == <<ddVars, rkVars, selVars, sumVars, exVars, paVars, cbVars, subVars, sendVars>>
allButProcess == <<ddVars, rkVars, selVars, sumVars, exVars, catVars, cbVars, subVars, sendVars>>
allButScrub == <<ddVars, rkVars, selVars, sumVars, exVars, catVars, paVars, subVars, sendVars>>
allButSubscribers == <<ddVars, rkVars, selVars, sumVars, exVars, catVars, paVars, cbVars, sendVars>>
allButSend == <<ddVars, rkVars, selVars, sumVars, exVars, catVars, paVars, cbVars, subVars>>

----------------------------------------------------------------------------
(* Bounds of the model *)

\* longest list handed to deduplicate
MaxArticles == 3
\* longest list handed to deduplicate in the runs that follow its steps
MaxStepArticles == 4
\* longest list handed to prioritize
MaxRanked == 3
\* longest list handed to select_top_articles
MaxSelected == 4
\* largest capacity select_top_articles is called with
MaxCapacity == 2
\* longest list handed to process_articles
MaxProcessed == 3
\* most words in a title handed to _categorize on its own
MaxWords == 2
\* most sentences in a text handed to extractive_summarize on its own
MaxExtracted == 5
\* most sentences in a summary handed to summarize_article
MaxSentences == 4
\* most sentences in a text handed to clean_bot_messages on its own
MaxScrubbed == 4
\* most calls of summarize_article in one process
MaxCalls == 2
\* most subscribe and unsubscribe calls made on one subscribers table
MaxSubscriberCalls == 3

----------------------------------------------------------------------------
(* Text helpers: str.lower(), slicing, `in` *)

UpperToLower ==
    ("A" :> "a") @@ ("B" :> "b") @@ ("C" :> "c") @@ ("D" :> "d") @@ ("E" :> "e") @@
    ("F" :> "f") @@ ("G" :> "g") @@ ("H" :> "h") @@ ("I" :> "i") @@ ("J" :> "j") @@
    ("K" :> "k") @@ ("L" :> "l") @@ ("M" :> "m") @@ ("N" :> "n") @@ ("O" :> "o") @@
    ("P" :> "p") @@ ("Q" :> "q") @@ ("R" :> "r") @@ ("S" :> "s") @@ ("T" :> "t") @@
    ("U" :> "u") @@ ("V" :> "v") @@ ("W" :> "w") @@ ("X" :> "x") @@ ("Y" :> "y") @@
    ("Z" :> "z")

LowerChar(c) == IF c \in DOMAIN UpperToLower THEN UpperToLower[c] ELSE c

\* str.lower()
RECURSIVE Lower(_)
Lower(s) == IF s = <<>> THEN <<>> ELSE <<LowerChar(Head(s))>> \o Lower(Tail(s))

\* s[:n]
Prefix(s, n) == SubSeq(s, 1, IF Len(s) < n THEN Len(s) ELSE n)

\* kw in text
Contains(kw, text) ==
    \E i \in 0..(Len(text) - Len(kw)) : \A j \in 1..Len(kw) : text[i + j] = kw[j]

Min(a, b) == IF a < b THEN a ELSE b

----------------------------------------------------------------------------
(* difflib.SequenceMatcher(None, a, b).ratio(), as _calculate_similarity    *)
(* uses it.  find_longest_match returns the longest block a[i:i+k] =        *)
(* b[j:j+k], of those the one starting earliest in a, of those the one      *)
(* starting earliest in b; get_matching_blocks recurses on the pieces to    *)
(* the left and to the right of it.  ratio = 2*M/T, and 1.0 when T = 0.     *)
(* (difflib's autojunk heuristic only acts on strings of 200 or more        *)
(* characters; the texts of this model are shorter.)                        *)

\* the blocks a[i:i+k] = b[j:j+k], k >= 1, as (i, j, k); the first characters
\* are compared first, the slices only where they agree
MatchBlocks(a, b) ==
    { blk \in (1..Len(a)) \X (1..Len(b)) \X (1..Min(Len(a), Len(b))) :
        /\ a[blk[1]] = b[blk[2]]
        /\ blk[1] + blk[3] - 1 <= Len(a)
        /\ blk[2] + blk[3] - 1 <= Len(b)
        /\ SubSeq(a, blk[1], blk[1] + blk[3] - 1) = SubSeq(b, blk[2], blk[2] + blk[3] - 1) }

LongestMatch(a, b) ==
    LET blocks == MatchBlocks(a, b)
    IN  CHOOSE m \in blocks :
            \A o \in blocks :
                \/ o[3] < m[3]
                \/ o[3] = m[3] /\ o[1] > m[1]
                \/ o[3] = m[3] /\ o[1] = m[1] /\ o[2] >= m[2]

RECURSIVE MatchCount(_, _)
MatchCount(a, b) ==
    IF MatchBlocks(a, b) = {} THEN 0
    ELSE LET m == LongestMatch(a, b)
         IN  m[3]
             + MatchCount(SubSeq(a, 1, m[1] - 1), SubSeq(b, 1, m[2] - 1))
             + MatchCount(SubSeq(a, m[1] + m[3], Len(a)), SubSeq(b, m[2] + m[3], Len(b)))

\* A ratio is kept exact, as numerator and denominator.
Ratio(a, b) ==
    IF Len(a) + Len(b) = 0 THEN [num |-> 1, den |-> 1]
    ELSE [num |-> 2 * MatchCount(a, b), den |-> Len(a) + Len(b)]

\* ratio > tenths/10
RatioAbove(r, tenths) == r.num * 10 > tenths * r.den

calculate_similarity(text1, text2) == Ratio(Lower(text1), Lower(text2))

----------------------------------------------------------------------------
(* Article (news_scraper.py) *)

\* the dataclass; published_date is its timestamp(); image_url is left out
Article(t, s, src, u, date, cat) ==
    [title |-> t, summary |-> s, source |-> src, url |-> u,
     published_date |-> date, category |-> cat]

\* Article.__eq__: equality is by lower-cased title only
ArticleEq(x, y) == Lower(x.title) = Lower(y.title)

\* list.remove(x): drops the first element equal to x
RECURSIVE ListRemove(_, _)
ListRemove(list, x) ==
    IF list = <<>> THEN <<>>
    ELSE IF ArticleEq(Head(list), x) THEN Tail(list)
    ELSE <<Head(list)>> \o ListRemove(Tail(list), x)

----------------------------------------------------------------------------
(* ContentFilter.deduplicate *)

\* default thresholds, in tenths
title_threshold == 6
summary_threshold == 5
\* the summary prefix compared
SummaryPrefixLen == 200

get_source_priority(source) ==
    CASE source = "Ferrari.com"    -> 5
      [] source = "F1 Official"    -> 4
      [] source = "Motorsport.com" -> 3
      [] source = "The Race"       -> 3
      [] source = "Autosport"      -> 2
      [] OTHER                     -> 1

TitleSim(article, existing) == calculate_similarity(article.title, existing.title)

SummarySim(article, existing) ==
    calculate_similarity(Prefix(article.summary, SummaryPrefixLen),
                         Prefix(existing.summary, SummaryPrefixLen))

\* line 89: the duplicate test of one (article, existing) pair
IsDuplicate(article, existing) ==
    \/ RatioAbove(TitleSim(article, existing), title_threshold)
    \/ /\ RatioAbove(SummarySim(article, existing), summary_threshold)
       /\ RatioAbove(TitleSim(article, existing), 4)

\* line 92: the new article's source is more authoritative than the kept one's
OutranksOrTies(article, existing) ==
    get_source_priority(article.source) >= get_source_priority(existing.source)

Outranks(article, existing) ==
    get_source_priority(article.source) > get_source_priority(existing.source)

\* position in the kept list of the first duplicate of article (0: none);
\* the inner for loop breaks there
FirstDuplicate(article, kept) ==
    IF \E k \in 1..Len(kept) : IsDuplicate(article, kept[k])
    THEN CHOOSE k \in 1..Len(kept) :
            /\ IsDuplicate(article, kept[k])
            /\ \A j \in 1..(k - 1) : ~IsDuplicate(article, kept[j])
    ELSE 0

\* one iteration of the outer for loop (lines 76-98)
DedupOne(article, kept) ==
    LET k == FirstDuplicate(article, kept)
    IN  IF k = 0 THEN Append(kept, article)
        ELSE IF Outranks(article, kept[k])
             THEN Append(ListRemove(kept, kept[k]), article)
             ELSE kept

\* the inputs of the deduplicate runs
DedupTitles == { <<"a", "b">>, <<"b", "c">>, <<"A", "b", "c">> }
DedupSummaries == { <<>>, <<"x">> }
DedupSources == { "Ferrari.com", "Autosport", "FanBlog" }

\* the n-th article of an input list; its url names its position
MkArticle(n, t, s, src) == Article(t, s, src, n, 0, "General")

DedupIdle ==
    /\ articles = <<>>
    /\ dd_input = <<>>
    /\ idx = 1
    /\ unique_articles = <<>>
    /\ dd_pc = "idle"
    /\ dd_call = 1
    /\ dd_first = <<>>

DedupInit ==
    /\ \E n \in 0..MaxArticles :
         \E t \in [1..n -> DedupTitles], s \in [1..n -> DedupSummaries],
            src \in [1..n -> DedupSources] :
             articles = [i \in 1..n |-> MkArticle(i, t[i], s[i], src[i])]
    /\ dd_input = articles
    /\ idx = 1
    /\ unique_articles = <<>>
    /\ dd_pc = "loop"
    /\ dd_call = 1
    /\ dd_first = <<>>

\* (title, summary, source) of articles that differ in title, in title case
\* only, in summary and in source
StepArticles ==
    { <<<<"a", "b">>, <<"x">>, "FanBlog">>,
      <<<<"b", "c">>, <<>>, "FanBlog">>,
      <<<<"b", "c">>, <<"x">>, "Autosport">>,
      <<<<"a", "b">>, <<"x">>, "Ferrari.com">>,
      <<<<"A", "b", "c">>, <<"x">>, "Autosport">> }

\* deduplicate called on any list of up to MaxStepArticles of them
DedupStepInit ==
    /\ \E n \in 0..MaxStepArticles :
         \E a \in [1..n -> StepArticles] :
             articles = [i \in 1..n |-> MkArticle(i, a[i][1], a[i][2], a[i][3])]
    /\ dd_input = articles
    /\ idx = 1
    /\ unique_articles = <<>>
    /\ dd_pc = "loop"
    /\ dd_call = 1
    /\ dd_first = <<>>

\* one pass of `for article in articles`
DedupIterate ==
    /\ dd_pc = "loop"
    /\ idx <= Len(articles)
    /\ unique_articles' = DedupOne(articles[idx], unique_articles)
    /\ idx' = idx + 1
    /\ UNCHANGED <<articles, dd_pc, dd_call, dd_input, dd_first>>
    /\ UNCHANGED allButDedup

\* `return unique_articles` (and `return []` for an empty input)
DedupReturn ==
    /\ dd_pc = "loop"
    /\ idx > Len(articles)
    /\ dd_pc' = "returned"
    /\ dd_first' = IF dd_call = 1 THEN unique_articles ELSE dd_first
    /\ UNCHANGED <<articles, idx, unique_articles, dd_call, dd_input>>
    /\ UNCHANGED allButDedup

\* the caller runs deduplicate on the list the first call returned
DedupAgain ==
    /\ dd_pc = "returned"
    /\ dd_call = 1
    /\ articles' = unique_articles
    /\ idx' = 1
    /\ unique_articles' = <<>>
    /\ dd_pc' = "loop"
    /\ dd_call' = 2
    /\ UNCHANGED <<dd_input, dd_first>>
    /\ UNCHANGED allButDedup

DedupNext == DedupIterate \/ DedupReturn \/ DedupAgain

----------------------------------------------------------------------------
(* ContentFilter.prioritize *)

PRIORITY_KEYWORDS ==
    << <<"e", "x", "c", "l", "u", "s", "i", "v", "e">>,
       <<"b", "r", "e", "a", "k", "i", "n", "g">>,
       <<"o", "f", "f", "i", "c", "i", "a", "l">>,
       <<"c", "o", "n", "f", "i", "r", "m", "e", "d">>,
       <<"a", "n", "n", "o", "u", "n", "c", "e", "d">>,
       <<"u", "p", "g", "r", "a", "d", "e">>,
       <<"n", "e", "w">>,
       <<"f", "i", "r", "s", "t">>,
       <<"t", "e", "s", "t">>,
       <<"u", "n", "v", "e", "i", "l">>,
       <<"r", "e", "v", "e", "a", "l">> >>

\* every category given the same weight
CategoryScoreFlat(category) == 1

\* category_scores.get(article.category, 0)
category_score(category) ==
    CASE category = "Technical"    -> 5
      [] category = "Race Weekend" -> 4
      [] category = "Driver News"  -> 3
      [] category = "Strategy"     -> 2
      [] category = "General"      -> 1
      [] OTHER                     -> 0

\* f"{article.title} {article.summary}".lower()
ArticleText(article) == Lower(article.title \o <<" ">> \o article.summary)

\* sum(1 for kw in self.PRIORITY_KEYWORDS if kw in text)
keyword_score(article) ==
    LET text == ArticleText(article)
    IN  Cardinality({ k \in 1..Len(PRIORITY_KEYWORDS) : Contains(PRIORITY_KEYWORDS[k], text) })

priority_score_no_recency(article) ==
    <<category_score(article.category), keyword_score(article), 0>>

\* the sort key (cat_score, keyword_score, recency_score)
priority_score(article) ==
    <<category_score(article.category), keyword_score(article), article.published_date>>

\* Python's tuple order on the keys
KeyLess(k1, k2) ==
    \/ k1[1] < k2[1]
    \/ k1[1] = k2[1] /\ k1[2] < k2[2]
    \/ k1[1] = k2[1] /\ k1[2] = k2[2] /\ k1[3] < k2[3]

\* sorted() computes the key of each element once and sorts (key, element)
RECURSIVE Keyed(_)
Keyed(list) ==
    IF list = <<>> THEN <<>>
    ELSE <<[key |-> priority_score(Head(list)), item |-> Head(list)]>> \o Keyed(Tail(list))

RECURSIVE Items(_)
Items(keyed) ==
    IF keyed = <<>> THEN <<>> ELSE <<Head(keyed).item>> \o Items(Tail(keyed))

\* sorted(..., reverse=True) is stable: x goes behind every element whose key
\* is greater than or equal to its own
RECURSIVE InsertDescending(_, _)
InsertDescending(x, keyed) ==
    IF keyed = <<>> THEN <<x>>
    ELSE IF KeyLess(Head(keyed).key, x.key)
         THEN <<x>> \o keyed
         ELSE <<Head(keyed)>> \o InsertDescending(x, Tail(keyed))

RECURSIVE SortedReverse(_)
SortedReverse(keyed) ==
    IF keyed = <<>> THEN <<>>
    ELSE InsertDescending(keyed[Len(keyed)], SortedReverse(SubSeq(keyed, 1, Len(keyed) - 1)))

\* what sorted(articles, key=priority_score)[::-1] would give: descending, but
\* equal keys in reversed input order
RECURSIVE InsertBeforeEqual(_, _)
InsertBeforeEqual(x, keyed) ==
    IF keyed = <<>> THEN <<x>>
    ELSE IF KeyLess(x.key, Head(keyed).key)
         THEN <<Head(keyed)>> \o InsertBeforeEqual(x, Tail(keyed))
         ELSE <<x>> \o keyed

RECURSIVE SortedAscending(_)
SortedAscending(keyed) ==
    IF keyed = <<>> THEN <<>>
    ELSE InsertBeforeEqual(keyed[Len(keyed)],
                           SortedAscending(SubSeq(keyed, 1, Len(keyed) - 1)))

SortedThenReversed(list) == Items(SortedAscending(Keyed(list)))

\* line 127
Prioritize(list) == Items(SortedReverse(Keyed(list)))

\* the inputs of the prioritize runs
RankTitles == { <<"N", "e", "w", " ", "t", "e", "s", "t">>, <<"w", "i", "n">> }
RankSummaries == { <<>>, <<"f", "i", "r", "s", "t">> }
RankCategories == { "Technical", "General" }
RankDates == { 1, 2 }

RankIdle ==
    /\ rk_articles = <<>>
    /\ sorted_articles = <<>>
    /\ rk_pc = "idle"

RankInit ==
    /\ \E n \in 0..MaxRanked :
         \E t \in [1..n -> RankTitles], s \in [1..n -> RankSummaries],
            c \in [1..n -> RankCategories], d \in [1..n -> RankDates] :
             rk_articles = [i \in 1..n |-> Article(t[i], s[i], "Autosport", i, d[i], c[i])]
    /\ sorted_articles = <<>>
    /\ rk_pc = "called"

\* the whole of prioritize: one sorted() call, returned as a new list
PrioritizeCall ==
    /\ rk_pc = "called"
    /\ sorted_articles' = Prioritize(rk_articles)
    /\ rk_pc' = "returned"
    /\ UNCHANGED rk_articles
    /\ UNCHANGED allButRank

RankNext == PrioritizeCall

----------------------------------------------------------------------------
(* ContentFilter.select_top_articles *)

HasRoomOffByOne(list, capacity) == Len(list) <= capacity

\* len(bucket) < max_bucket
HasRoom(list, capacity) == Len(list) < capacity

\* a Technical candidate that finds the technical bucket full is skipped
RouteDroppingOverflow(article, f, r, t, maxF, maxR, maxT) ==
    IF article.category = "Technical"
    THEN IF HasRoom(t, maxT) THEN "technical" ELSE "dropped"
    ELSE IF HasRoom(f, maxF) THEN "featured"
    ELSE IF HasRoom(r, maxR) THEN "headlines"
    ELSE "dropped"

\* the if / elif / elif of lines 141-146: where one article goes
Route(article, f, r, t, maxF, maxR, maxT) ==
    IF article.category = "Technical" /\ HasRoom(t, maxT) THEN "technical"
    ELSE IF HasRoom(f, maxF) THEN "featured"
    ELSE IF HasRoom(r, maxR) THEN "headlines"
    ELSE "dropped"

\* the inputs of the select_top_articles runs
SelectCategories == { "Technical", "General" }

SelectIdle ==
    /\ sel_articles = <<>>
    /\ sel_idx = 1
    /\ featured = <<>>
    /\ regular = <<>>
    /\ technical = <<>>
    /\ max_featured = 1
    /\ max_regular = 6
    /\ max_technical = 5
    /\ sel_pc = "idle"

SelectInit ==
    /\ \E n \in 0..MaxSelected :
         \E c \in [1..n -> SelectCategories] :
             sel_articles = [i \in 1..n |-> Article(<<>>, <<>>, "Autosport", i, 0, c[i])]
    /\ max_featured \in 0..MaxCapacity
    /\ max_regular \in 0..MaxCapacity
    /\ max_technical \in 0..MaxCapacity
    /\ sel_idx = 1
    /\ featured = <<>>
    /\ regular = <<>>
    /\ technical = <<>>
    /\ sel_pc = "loop"

\* one pass that puts the article at the front of its list
SelectIteratePrepending ==
    /\ sel_pc = "loop"
    /\ sel_idx <= Len(sel_articles)
    /\ LET article == sel_articles[sel_idx]
           to == Route(article, featured, regular, technical,
                       max_featured, max_regular, max_technical)
       IN  /\ technical' = IF to = "technical" THEN <<article>> \o technical ELSE technical
           /\ featured' = IF to = "featured" THEN <<article>> \o featured ELSE featured
           /\ regular' = IF to = "headlines" THEN <<article>> \o regular ELSE regular
    /\ sel_idx' = sel_idx + 1
    /\ UNCHANGED <<sel_articles, max_featured, max_regular, max_technical, sel_pc>>
    /\ UNCHANGED allButSelect

\* one pass of `for article in articles`
SelectIterate ==
    /\ sel_pc = "loop"
    /\ sel_idx <= Len(sel_articles)
    /\ LET article == sel_articles[sel_idx]
           to == Route(article, featured, regular, technical,
                       max_featured, max_regular, max_technical)
       IN  /\ technical' = IF to = "technical" THEN Append(technical, article) ELSE technical
           /\ featured' = IF to = "featured" THEN Append(featured, article) ELSE featured
           /\ regular' = IF to = "headlines" THEN Append(regular, article) ELSE regular
    /\ sel_idx' = sel_idx + 1
    /\ UNCHANGED <<sel_articles, max_featured, max_regular, max_technical, sel_pc>>
    /\ UNCHANGED allButSelect

\* return {"featured": featured, "headlines": regular, "technical": technical}
SelectReturn ==
    /\ sel_pc = "loop"
    /\ sel_idx > Len(sel_articles)
    /\ sel_pc' = "returned"
    /\ UNCHANGED <<sel_articles, sel_idx, featured, regular, technical,
                   max_featured, max_regular, max_technical>>
    /\ UNCHANGED allButSelect

SelectNext == SelectIterate \/ SelectReturn

----------------------------------------------------------------------------
(* summarizer.py.  The texts of the summarization chain are hundreds of     *)
(* characters long, so a text is kept as the sequence of its sentences,     *)
(* what re.split(r'(?<=[.!?])\s+', text.strip()) yields, each sentence a    *)
(* record of what the code reads of it:                                     *)
(*   chars    len(sentence)                                                 *)
(*   words    len(sentence.split())                                         *)
(*   key      how many key_terms occur in it                                *)
(*   insider  how many insider_terms occur in it                            *)
(*   junk     it holds 'click here', 'subscribe', 'follow us' or 'read more'*)
(*   dots     how many '.' it ends with (3: it ends with an ellipsis)       *)
(*   bot      it holds one of the bot_keywords of clean_bot_messages        *)
(*   par      the whitespace after it is a paragraph break "\n\n" (else one *)
(*            space); FALSE on the last sentence of a text                  *)
(* The empty sequence stands for the empty string and for None.             *)

Sentence(chars, words, key, insider, junk, dots, bot, par) ==
    [chars |-> chars, words |-> words, key |-> key, insider |-> insider,
     junk |-> junk, dots |-> dots, bot |-> bot, par |-> par]

SepLen(s) == IF s.par THEN 2 ELSE 1

\* len(text)
RECURSIVE Length(_)
Length(text) ==
    IF text = <<>> THEN 0
    ELSE IF Len(text) = 1 THEN text[1].chars
    ELSE text[1].chars + SepLen(text[1]) + Length(Tail(text))

\* no separator follows the last sentence
NormText(text) ==
    IF text = <<>> THEN <<>>
    ELSE [text EXCEPT ![Len(text)] = [@ EXCEPT !.par = FALSE]]

\* the sentences at the positions of the set, in text order
RECURSIVE Pick(_, _, _)
Pick(text, positions, i) ==
    IF i > Len(text) THEN <<>>
    ELSE (IF i \in positions THEN <<text[i]>> ELSE <<>>) \o Pick(text, positions, i + 1)

(* extractive_summarize.  Scores are kept doubled (1.5 -> 3, 2.5 -> 5). *)

PositionScore(i) == IF i = 1 THEN 10 ELSE IF i <= 3 THEN 6 ELSE 0

LengthScore(words) ==
    IF 15 <= words /\ words <= 30 THEN 8
    ELSE IF (10 <= words /\ words < 15) \/ (30 < words /\ words <= 40) THEN 4
    ELSE 0

\* lines 51-82: the score of the i-th sentence (1-based here)
SentenceScore(s, i) ==
    PositionScore(i) + LengthScore(s.words) + 3 * s.key + 5 * s.insider
        - (IF s.junk THEN 20 ELSE 0)

\* the same with equal scores taken latest first
TopIndicesTiesLast(text, n) ==
    { i \in 1..Len(text) :
        Cardinality({ j \in 1..Len(text) :
            \/ SentenceScore(text[j], j) > SentenceScore(text[i], i)
            \/ SentenceScore(text[j], j) = SentenceScore(text[i], i) /\ j > i }) < n }

\* lines 85-86: sort by score, descending and stable, take the first n; j
\* stands before i in that order when it scores more, or the same and is earlier
TopIndices(text, n) ==
    { i \in 1..Len(text) :
        Cardinality({ j \in 1..Len(text) :
            \/ SentenceScore(text[j], j) > SentenceScore(text[i], i)
            \/ SentenceScore(text[j], j) = SentenceScore(text[i], i) /\ j < i }) < n }

\* only the closing dots are looked at
LooksTruncatedByDots(s) == s.dots >= 3

\* line 93
LooksTruncated(s) == s.dots >= 3 \/ s.chars < 40

\* lines 100-105: " ".join(...), trailing '.' stripped, one '.' added
JoinAndClose(sentences) ==
    LET spaced == [i \in 1..Len(sentences) |-> [sentences[i] EXCEPT !.par = FALSE]]
        n == Len(spaced)
    IN  [spaced EXCEPT ![n] = [@ EXCEPT !.chars = @ - spaced[n].dots + 1, !.dots = 1]]

\* lines 89-98: the positions whose sentences make the result
ResultIndices(text, num_sentences) ==
    LET top == TopIndices(text, num_sentences)
        kept == { i \in top : ~(LooksTruncated(text[i]) /\ Cardinality(top) > 1) }
    IN  IF kept = {} THEN top ELSE kept

\* the positions are fixed once, by the one-element set, and then joined
extractive_summarize(text, num_sentences) ==
    IF text = <<>> \/ Length(text) < 100 THEN text
    ELSE IF Len(text) <= num_sentences THEN text
    ELSE CHOOSE joined \in { JoinAndClose(Pick(text, indices, 1)) :
                                indices \in { ResultIndices(text, num_sentences) } } : TRUE

(* clean_bot_messages *)

\* "Social media content currently unavailable due to source site protection."
Placeholder == << Sentence(73, 10, 0, 0, FALSE, 1, FALSE, FALSE) >>

HasBotMessage(text) == \E i \in 1..Len(text) : text[i].bot

\* only the sentence itself is looked at
BotInSentence(text, i) == text[i].bot

\* the paragraph, of text.split('\n\n'), that holds sentence i has a bot keyword
BotInParagraph(text, i) ==
    \E k \in 1..Len(text) :
        /\ text[k].bot
        /\ \A m \in (IF k < i THEN k ELSE i)..((IF k < i THEN i ELSE k) - 1) : ~text[m].par

clean_bot_messages(text) ==
    IF text = <<>> THEN text
    ELSE IF ~HasBotMessage(text) THEN text
    ELSE IF Length(text) < 500 THEN Placeholder
    ELSE NormText(Pick(text, { i \in 1..Len(text) : ~BotInParagraph(text, i) }, 1))

(* fetch_article_content and _fetch_with_requests.  env is what the outside *)
(* world answers: playwright is "missing" (ImportError), "nav_error" (goto  *)
(* raises), "error" (any other exception) or "ok" with the page text        *)
(* pw_content; requests is "error" (an exception), "status" (not 200) or    *)
(* "ok" with the paragraphs rq_content.                                     *)

fetch_with_requests(u, env) ==
    IF u = "" THEN <<>>
    ELSE IF env.requests = "error" THEN <<>>
    ELSE IF env.requests = "status" THEN <<>>
    ELSE env.rq_content

fetch_article_content(u, env) ==
    IF env.playwright = "ok" /\ Length(env.pw_content) > 500
    THEN env.pw_content
    ELSE fetch_with_requests(u, env)

(* LocalSummarizer *)

\* summarizer.py imports requests, logging, re, typing, bs4 and time, never
\* os, which LocalSummarizer.__init__ reads on its first line
os_imported == FALSE

\* LocalSummarizer(): "NameError" when it raises, else what _summarizer is
LocalSummarizerInit(env) ==
    IF ~os_imported THEN "NameError"
    ELSE IF env.disabled \/ ~env.transformers \/ ~env.pipeline_ok THEN "unloaded"
    ELSE "loaded"

\* LocalSummarizer.summarize: the summary text, or <<>> for None
LocalSummarizerSummarize(instance, env) ==
    IF instance # "loaded" THEN <<>>
    ELSE IF env.model = "text" THEN env.ai_text
    ELSE <<>>

\* lines 267-268: get_instance runs cls() when _instance is None
Constructions(instance) == IF instance = "None" THEN 1 ELSE 0

\* lines 336-342: what the try block leaves: the instance, and either the
\* text to return or nothing (fall back)
GenerativeStage(instance, env) ==
    LET made == IF instance = "None" THEN LocalSummarizerInit(env) ELSE instance
    IN  IF made = "NameError"
        THEN [instance |-> instance, raised |-> TRUE, ai_summary |-> <<>>]
        ELSE [instance |-> made, raised |-> FALSE,
              ai_summary |-> LocalSummarizerSummarize(made, env)]

GenerativeUncaught(stage) ==
    IF stage.raised THEN "raised"
    ELSE IF stage.ai_summary # <<>> THEN "returned"
    ELSE "extractive"

\* `if ai_summary: return ai_summary`, `except Exception` swallowing the rest
AfterGenerative(stage) ==
    IF ~stage.raised /\ stage.ai_summary # <<>> THEN "returned" ELSE "extractive"

(* summarize_article *)

LengthGateReturnsText(summ, text) == text

\* line 333: `return summary`
LengthGateReturn(summ, text) == summ

\* line 332
BelowLengthGate(text) == text = <<>> \/ Length(text) < 200

\* three sentences whatever the length of the text
TargetAlwaysThree(text) == 3

\* line 348
target_sentences(text) == IF Length(text) < 1000 THEN 2 ELSE 3

\* the sentences the texts of the runs are made of
LeadSentence     == Sentence(150, 20, 1, 0, FALSE, 1, FALSE, FALSE)
ShortSentence    == Sentence(30, 5, 0, 0, FALSE, 1, FALSE, FALSE)
LongSentence     == Sentence(400, 60, 2, 1, FALSE, 1, FALSE, FALSE)
EllipsisSentence == Sentence(120, 18, 0, 0, FALSE, 3, FALSE, FALSE)
BotSentence      == Sentence(160, 25, 0, 0, FALSE, 1, TRUE, TRUE)

SentencePool == { LeadSentence, ShortSentence, LongSentence, EllipsisSentence, BotSentence }

\* full texts a caller supplies; "" and None are <<>>
SuppliedTexts == { <<>>, <<LongSentence, LeadSentence, ShortSentence>> }

\* what a fetch can bring back
FetchedPages == { <<LeadSentence>>, <<LongSentence, LeadSentence, LongSentence>> }

FetchEnvs ==
    [ playwright : { "missing", "nav_error", "error", "ok" },
      pw_content : FetchedPages,
      requests   : { "error", "status", "ok" },
      rq_content : FetchedPages ]

GenerativeEnvs ==
    [ disabled : BOOLEAN, transformers : BOOLEAN, pipeline_ok : BOOLEAN,
      model : { "text", "empty", "error" }, ai_text : { <<LeadSentence>> } ]

SumIdle ==
    /\ summary = <<>>
    /\ full_text = <<>>
    /\ url = ""
    /\ text_to_summarize = <<>>
    /\ result = <<>>
    /\ sum_pc = "idle"
    /\ ls_instance = "None"
    /\ fetch_called = FALSE
    /\ generative_tried = FALSE
    /\ extractive_calls = 0
    /\ ai_summary = <<>>
    /\ ls_inits = 0
    /\ sum_calls = 0

SumInit ==
    /\ \E n \in 0..MaxSentences :
         \E t \in [1..n -> SentencePool] : summary = NormText(t)
    /\ full_text \in SuppliedTexts
    /\ url \in { "", "https://example.com/a" }
    /\ text_to_summarize = <<>>
    /\ result = <<>>
    /\ sum_pc = "start"
    /\ ls_instance = "None"
    /\ fetch_called = FALSE
    /\ generative_tried = FALSE
    /\ extractive_calls = 0
    /\ ai_summary = <<>>
    /\ ls_inits = 0
    /\ sum_calls = 1

\* a fetch whenever there is a url, a full text given or not
SumFetchOverSuppliedText ==
    /\ sum_pc = "start"
    /\ url # ""
    /\ \E env \in FetchEnvs : full_text' = fetch_article_content(url, env)
    /\ fetch_called' = TRUE
    /\ sum_pc' = "gate"
    /\ UNCHANGED <<summary, url, text_to_summarize, result, ls_instance,
                   generative_tried, extractive_calls>>
    /\ UNCHANGED ai_summary
    /\ UNCHANGED <<ls_inits, sum_calls>>
    /\ UNCHANGED allButSummarize

\* lines 325-327: fetch the full text when none was given and there is a url
SumFetch ==
    /\ sum_pc = "start"
    /\ full_text = <<>> /\ url # ""
    /\ \E env \in FetchEnvs : full_text' = fetch_article_content(url, env)
    /\ fetch_called' = TRUE
    /\ sum_pc' = "gate"
    /\ UNCHANGED <<summary, url, text_to_summarize, result, ls_instance,
                   generative_tried, extractive_calls>>
    /\ UNCHANGED ai_summary
    /\ UNCHANGED <<ls_inits, sum_calls>>
    /\ UNCHANGED allButSummarize

SumNoFetch ==
    /\ sum_pc = "start"
    /\ ~(full_text = <<>> /\ url # "")
    /\ sum_pc' = "gate"
    /\ UNCHANGED <<summary, full_text, url, text_to_summarize, result, ls_instance,
                   fetch_called, generative_tried, extractive_calls>>
    /\ UNCHANGED ai_summary
    /\ UNCHANGED <<ls_inits, sum_calls>>
    /\ UNCHANGED allButSummarize

\* a gate that hands the text straight to the extractive stage
SumLengthGateSkippingGenerative ==
    /\ sum_pc = "gate"
    /\ LET text == IF full_text # <<>> THEN full_text ELSE summary
       IN  /\ text_to_summarize' = text
           /\ IF BelowLengthGate(text)
              THEN /\ result' = LengthGateReturn(summary, text)
                   /\ sum_pc' = "returned"
              ELSE /\ result' = result
                   /\ sum_pc' = "extractive"
    /\ UNCHANGED <<summary, full_text, url, ls_instance, fetch_called,
                   generative_tried, extractive_calls>>
    /\ UNCHANGED ai_summary
    /\ UNCHANGED <<ls_inits, sum_calls>>
    /\ UNCHANGED allButSummarize

\* lines 329-333
SumLengthGate ==
    /\ sum_pc = "gate"
    /\ LET text == IF full_text # <<>> THEN full_text ELSE summary
       IN  /\ text_to_summarize' = text
           /\ IF BelowLengthGate(text)
              THEN /\ result' = LengthGateReturn(summary, text)
                   /\ sum_pc' = "returned"
              ELSE /\ result' = result
                   /\ sum_pc' = "generative"
    /\ UNCHANGED <<summary, full_text, url, ls_instance, fetch_called,
                   generative_tried, extractive_calls>>
    /\ UNCHANGED ai_summary
    /\ UNCHANGED <<ls_inits, sum_calls>>
    /\ UNCHANGED allButSummarize

\* lines 336-342
SumGenerative ==
    /\ sum_pc = "generative"
    /\ generative_tried' = TRUE
    /\ \E env \in GenerativeEnvs :
         LET stage == GenerativeStage(ls_instance, env)
         IN  /\ ls_instance' = stage.instance
             /\ ai_summary' = stage.ai_summary
             /\ sum_pc' = AfterGenerative(stage)
             /\ result' = IF AfterGenerative(stage) = "returned"
                          THEN stage.ai_summary ELSE result
    /\ ls_inits' = ls_inits + Constructions(ls_instance)
    /\ UNCHANGED <<summary, full_text, url, text_to_summarize, fetch_called,
                   extractive_calls, sum_calls>>
    /\ UNCHANGED allButSummarize

\* lines 348-349
SumExtractive ==
    /\ sum_pc = "extractive"
    /\ result' = extractive_summarize(text_to_summarize, target_sentences(text_to_summarize))
    /\ extractive_calls' = extractive_calls + 1
    /\ sum_pc' = "scrub"
    /\ UNCHANGED <<summary, full_text, url, text_to_summarize, ls_instance,
                   fetch_called, generative_tried>>
    /\ UNCHANGED ai_summary
    /\ UNCHANGED <<ls_inits, sum_calls>>
    /\ UNCHANGED allButSummarize

\* line 352
SumScrub ==
    /\ sum_pc = "scrub"
    /\ result' = clean_bot_messages(result)
    /\ sum_pc' = "cap"
    /\ UNCHANGED <<summary, full_text, url, text_to_summarize, ls_instance,
                   fetch_called, generative_tried, extractive_calls>>
    /\ UNCHANGED ai_summary
    /\ UNCHANGED <<ls_inits, sum_calls>>
    /\ UNCHANGED allButSummarize

\* lines 355-359
SumCap ==
    /\ sum_pc = "cap"
    /\ IF Length(result) > 600
       THEN /\ result' = extractive_summarize(result, 2)
            /\ extractive_calls' = extractive_calls + 1
       ELSE UNCHANGED <<result, extractive_calls>>
    /\ sum_pc' = "returned"
    /\ UNCHANGED <<summary, full_text, url, text_to_summarize, ls_instance,
                   fetch_called, generative_tried>>
    /\ UNCHANGED ai_summary
    /\ UNCHANGED <<ls_inits, sum_calls>>
    /\ UNCHANGED allButSummarize

SumNext ==
    \/ SumFetch
    \/ SumNoFetch
    \/ SumLengthGate
    \/ SumGenerative
    \/ SumExtractive
    \/ SumScrub
    \/ SumCap

(* summarize_article called for one article after the other, as              *)
(* _summarize_articles does, in one process: LocalSummarizer._instance is    *)
(* a class attribute and outlives the call.                                  *)

CallSummaries == { <<>>, <<LongSentence>>, <<BotSentence, LongSentence, LeadSentence>> }

SumCallsInit ==
    /\ summary \in CallSummaries
    /\ full_text \in SuppliedTexts
    /\ url \in { "", "https://example.com/a" }
    /\ text_to_summarize = <<>>
    /\ result = <<>>
    /\ sum_pc = "start"
    /\ ls_instance = "None"
    /\ fetch_called = FALSE
    /\ generative_tried = FALSE
    /\ extractive_calls = 0
    /\ ai_summary = <<>>
    /\ ls_inits = 0
    /\ sum_calls = 1

\* the next call of the process, when the one before has returned
SumCallAgain ==
    /\ sum_pc = "returned"
    /\ sum_calls < MaxCalls
    /\ sum_calls' = sum_calls + 1
    /\ summary' \in CallSummaries
    /\ full_text' \in SuppliedTexts
    /\ url' \in { "", "https://example.com/a" }
    /\ text_to_summarize' = <<>>
    /\ result' = <<>>
    /\ sum_pc' = "start"
    /\ fetch_called' = FALSE
    /\ generative_tried' = FALSE
    /\ extractive_calls' = 0
    /\ ai_summary' = <<>>
    /\ UNCHANGED <<ls_instance, ls_inits>>
    /\ UNCHANGED allButSummarize

SumCallsNext == SumNext \/ SumCallAgain

----------------------------------------------------------------------------
(* extractive_summarize called on its own *)

\* a sentence dense in key terms and insider terms, and a lead cut by "..."
RichSentence  == Sentence(160, 20, 5, 2, FALSE, 1, FALSE, FALSE)
CutLead       == Sentence(150, 20, 1, 0, FALSE, 3, FALSE, FALSE)

ExtractPool == { LeadSentence, ShortSentence, EllipsisSentence, RichSentence, CutLead }

ExtractIdle ==
    /\ ex_text = <<>>
    /\ ex_n = 0
    /\ ex_picked = {}
    /\ ex_result = <<>>
    /\ ex_pc = "idle"

ExtractInit ==
    /\ \E n \in 0..MaxExtracted :
         \E t \in [1..n -> ExtractPool] : ex_text = t
    /\ ex_n \in { 2, 3 }
    /\ ex_picked = {}
    /\ ex_result = <<>>
    /\ ex_pc = "called"

\* lines 23-30: the text comes back whole, every sentence of it kept
ReturnsInput(text, num_sentences) ==
    text = <<>> \/ Length(text) < 100 \/ Len(text) <= num_sentences

ExtractCall ==
    /\ ex_pc = "called"
    /\ ex_picked' = IF ReturnsInput(ex_text, ex_n) THEN 1..Len(ex_text)
                    ELSE ResultIndices(ex_text, ex_n)
    /\ ex_result' = extractive_summarize(ex_text, ex_n)
    /\ ex_pc' = "returned"
    /\ UNCHANGED <<ex_text, ex_n>>
    /\ UNCHANGED allButExtract

ExtractNext == ExtractCall

----------------------------------------------------------------------------
(* _categorize *)

\* CATEGORY_KEYWORDS, lines 30-49, one list per category
RACE_WEEKEND_KEYWORDS ==
    << <<"r", "a", "c", "e">>,
       <<"g", "r", "a", "n", "d", " ", "p", "r", "i", "x">>,
       <<"g", "p">>,
       <<"q", "u", "a", "l", "i", "f", "y", "i", "n", "g">>,
       <<"q", "u", "a", "l", "i">>,
       <<"s", "p", "r", "i", "n", "t">>,
       <<"p", "o", "d", "i", "u", "m">>,
       <<"w", "i", "n">>,
       <<"v", "i", "c", "t", "o", "r", "y">>,
       <<"f", "i", "n", "i", "s", "h">>,
       <<"r", "e", "s", "u", "l", "t">>,
       <<"g", "r", "i", "d">> >>

TECHNICAL_KEYWORDS ==
    << <<"d", "o", "w", "n", "f", "o", "r", "c", "e">>,
       <<"a", "e", "r", "o", "d", "y", "n", "a", "m", "i", "c">>,
       <<"a", "e", "r", "o">>,
       <<"p", "o", "w", "e", "r", " ", "u", "n", "i", "t">>,
       <<"e", "n", "g", "i", "n", "e">>,
       <<"s", "u", "s", "p", "e", "n", "s", "i", "o", "n">>,
       <<"f", "l", "o", "o", "r">>,
       <<"d", "i", "f", "f", "u", "s", "e", "r">>,
       <<"s", "i", "d", "e", "p", "o", "d">>,
       <<"w", "i", "n", "g">>,
       <<"b", "r", "a", "k", "e">>,
       <<"u", "p", "g", "r", "a", "d", "e">>,
       <<"d", "e", "v", "e", "l", "o", "p", "m", "e", "n", "t">>,
       <<"c", "h", "a", "s", "s", "i", "s">>,
       <<"g", "e", "a", "r", "b", "o", "x">>,
       <<"m", "g", "u">>,
       <<"e", "r", "s">>,
       <<"b", "a", "t", "t", "e", "r", "y">>,
       <<"c", "o", "o", "l", "i", "n", "g">>,
       <<"e", "x", "h", "a", "u", "s", "t">> >>

DRIVER_NEWS_KEYWORDS ==
    << <<"l", "e", "c", "l", "e", "r", "c">>,
       <<"h", "a", "m", "i", "l", "t", "o", "n">>,
       <<"d", "r", "i", "v", "e", "r">>,
       <<"i", "n", "t", "e", "r", "v", "i", "e", "w">>,
       <<"c", "o", "n", "t", "r", "a", "c", "t">>,
       <<"c", "o", "m", "m", "e", "n", "t">>,
       <<"s", "a", "i", "d">>,
       <<"s", "a", "y", "s">>,
       <<"b", "e", "l", "i", "e", "v", "e", "s">>,
       <<"t", "h", "i", "n", "k", "s">>,
       <<"f", "e", "e", "l", "i", "n", "g">> >>

STRATEGY_KEYWORDS ==
    << <<"s", "t", "r", "a", "t", "e", "g", "y">>,
       <<"p", "r", "e", "d", "i", "c", "t", "i", "o", "n">>,
       <<"a", "n", "a", "l", "y", "s", "i", "s">>,
       <<"e", "x", "p", "e", "c", "t">>,
       <<"o", "u", "t", "l", "o", "o", "k">>,
       <<"f", "o", "r", "e", "c", "a", "s", "t">>,
       <<"p", "r", "e", "v", "i", "e", "w">>,
       <<"r", "e", "v", "i", "e", "w">>,
       <<"c", "o", "m", "p", "a", "r", "i", "s", "o", "n">> >>

\* the categories in the order the dict declares them
CATEGORY_ORDER == << "Race Weekend", "Technical", "Driver News", "Strategy" >>

CATEGORY_KEYWORDS(category) ==
    CASE category = "Race Weekend" -> RACE_WEEKEND_KEYWORDS
      [] category = "Technical"    -> TECHNICAL_KEYWORDS
      [] category = "Driver News"  -> DRIVER_NEWS_KEYWORDS
      [] category = "Strategy"     -> STRATEGY_KEYWORDS

\* sum(1 for kw in keywords if kw in text)
CategoryScore(category, text) ==
    LET keywords == CATEGORY_KEYWORDS(category)
    IN  Cardinality({ k \in 1..Len(keywords) : Contains(keywords[k], text) })

\* max() keeping the last of the equal maxima instead of the first
RECURSIVE MaxCategoryLastWins(_, _, _, _)
MaxCategoryLastWins(text, i, best, bestScore) ==
    IF i > Len(CATEGORY_ORDER) THEN best
    ELSE LET score == CategoryScore(CATEGORY_ORDER[i], text)
         IN  IF score > 0 /\ score >= bestScore
             THEN MaxCategoryLastWins(text, i + 1, CATEGORY_ORDER[i], score)
             ELSE MaxCategoryLastWins(text, i + 1, best, bestScore)

\* lines 160-167: the categories that score more than 0 enter the dict in
\* declaration order, and max() returns the first of the highest; "General"
\* when the dict is empty
RECURSIVE MaxCategory(_, _, _, _)
MaxCategory(text, i, best, bestScore) ==
    IF i > Len(CATEGORY_ORDER) THEN best
    ELSE LET score == CategoryScore(CATEGORY_ORDER[i], text)
         IN  IF score > bestScore
             THEN MaxCategory(text, i + 1, CATEGORY_ORDER[i], score)
             ELSE MaxCategory(text, i + 1, best, bestScore)

categorize(article) == MaxCategory(ArticleText(article), 1, "General", 0)

\* words joined by single spaces
RECURSIVE JoinWords(_)
JoinWords(words) ==
    IF words = <<>> THEN <<>>
    ELSE IF Len(words) = 1 THEN words[1]
    ELSE words[1] \o <<" ">> \o JoinWords(Tail(words))

\* the words the titles of the _categorize runs are made of
CatWords ==
    { <<"R", "a", "c", "e">>,
      <<"A", "e", "r", "o">>,
      <<"D", "r", "i", "v", "e", "r", "s">>,
      <<"P", "r", "e", "v", "i", "e", "w">>,
      <<"M", "o", "n", "z", "a">>,
      <<"G", "r", "a", "n", "d">>,
      <<"P", "r", "i", "x">> }
CatSummaries == { <<>>, <<"W", "I", "N", "G">> }

CatIdle ==
    /\ cat_article = Article(<<>>, <<>>, "", "", 0, "General")
    /\ cat_result = ""
    /\ cat_pc = "idle"

CatInit ==
    /\ \E n \in 0..MaxWords :
         \E w \in [1..n -> CatWords], s \in CatSummaries :
             cat_article = Article(JoinWords(w), s, "Autosport", "", 0, "General")
    /\ cat_result = ""
    /\ cat_pc = "called"

CategorizeCall ==
    /\ cat_pc = "called"
    /\ cat_result' = categorize(cat_article)
    /\ cat_pc' = "returned"
    /\ UNCHANGED cat_article
    /\ UNCHANGED allButCategorize

CatNext == CategorizeCall

----------------------------------------------------------------------------
(* process_articles: filter, deduplicate, prioritize, select, summarize *)

\* FerrariNewsScraper.FERRARI_KEYWORDS
FERRARI_KEYWORDS ==
    << <<"f", "e", "r", "r", "a", "r", "i">>,
       <<"l", "e", "c", "l", "e", "r", "c">>,
       <<"h", "a", "m", "i", "l", "t", "o", "n">>,
       <<"l", "e", "w", "i", "s", " ", "h", "a", "m", "i", "l", "t", "o", "n">>,
       <<"c", "h", "a", "r", "l", "e", "s", " ", "l", "e", "c", "l", "e", "r", "c">>,
       <<"s", "f", "-", "2", "6">>,
       <<"s", "f", "2", "6">>,
       <<"m", "a", "r", "a", "n", "e", "l", "l", "o">>,
       <<"s", "c", "u", "d", "e", "r", "i", "a">>,
       <<"v", "a", "s", "s", "e", "u", "r">>,
       <<"f", "r", "e", "d", " ", "v", "a", "s", "s", "e", "u", "r">>,
       <<"p", "r", "a", "n", "c", "i", "n", "g", " ", "h", "o", "r", "s", "e">>,
       <<"t", "i", "f", "o", "s", "i">>,
       <<"i", "t", "a", "l", "i", "a", "n", " ", "t", "e", "a", "m">> >>

\* any(keyword in text for keyword in self.FERRARI_KEYWORDS)
is_ferrari_related(article) ==
    LET text == ArticleText(article)
    IN  \E k \in 1..Len(FERRARI_KEYWORDS) : Contains(FERRARI_KEYWORDS[k], text)

\* every article object categorized, related or not
RECURSIVE CategorizedAll(_)
CategorizedAll(list) ==
    IF list = <<>> THEN <<>>
    ELSE << [Head(list) EXCEPT !.category = categorize(Head(list))] >>
             \o CategorizedAll(Tail(list))

\* the article objects of the list after filter_ferrari_content has run:
\* the category of each related one was overwritten in place
RECURSIVE Categorized(_)
Categorized(list) ==
    IF list = <<>> THEN <<>>
    ELSE LET article == Head(list)
         IN  << IF is_ferrari_related(article)
                THEN [article EXCEPT !.category = categorize(article)]
                ELSE article >> \o Categorized(Tail(list))

\* the related articles in input order, their category left as it came
RECURSIVE FilterKeepingCategory(_)
FilterKeepingCategory(list) ==
    IF list = <<>> THEN <<>>
    ELSE (IF is_ferrari_related(Head(list)) THEN << Head(list) >> ELSE <<>>)
             \o FilterKeepingCategory(Tail(list))

\* lines 56-65: the related articles, categorized, in input order
RECURSIVE filter_ferrari_content(_)
filter_ferrari_content(list) ==
    IF list = <<>> THEN <<>>
    ELSE LET article == Head(list)
         IN  (IF is_ferrari_related(article)
              THEN << [article EXCEPT !.category = categorize(article)] >>
              ELSE <<>>) \o filter_ferrari_content(Tail(list))

\* deduplicate, lines 71-101: the outer loop run to its end
RECURSIVE DedupFrom(_, _)
DedupFrom(list, kept) ==
    IF list = <<>> THEN kept
    ELSE DedupFrom(Tail(list), DedupOne(Head(list), kept))

deduplicate(list) == DedupFrom(list, <<>>)

\* select_top_articles, lines 136-152: the loop run to its end
RECURSIVE SelectFrom(_, _, _, _, _)
SelectFrom(list, bundle, maxF, maxR, maxT) ==
    IF list = <<>> THEN bundle
    ELSE LET article == Head(list)
             to == Route(article, bundle.featured, bundle.headlines, bundle.technical,
                         maxF, maxR, maxT)
         IN  SelectFrom(Tail(list),
                        IF to = "dropped" THEN bundle
                        ELSE [bundle EXCEPT ![to] = Append(@, article)],
                        maxF, maxR, maxT)

EmptyBundle == [featured |-> <<>>, headlines |-> <<>>, technical |-> <<>>]

\* the defaults of line 131-133
select_top_articles(list) == SelectFrom(list, EmptyBundle, 1, 6, 5)

\* what summarize_article gives back when the page of the url was fetched
PageSummary == <<"P", "a", "g", "e", ".">>

\* what one call of summarize_article does: it raises, or returns "" (the
\* summary was "", or the fetched page was all bot paragraphs), or the
\* summary it was given (when that is not ""), or the text made from the
\* fetched page (when the article has a url)
SummarizeOutcomes == { "raise", "empty", "same", "text" }

\* line 211: the value the call returns (<<>> where it raises, too)
Returned(article, outcome) ==
    IF outcome = "text" THEN PageSummary
    ELSE IF outcome = "same" THEN article.summary
    ELSE <<>>

\* lines 209-216 for one article
SummarizeOne(article, outcome) ==
    LET ai_text == Returned(article, outcome)
    IN  IF outcome # "raise" /\ ai_text # <<>> /\ ai_text # article.summary
        THEN [article EXCEPT !.summary = ai_text]
        ELSE article

\* one try around the whole loop: the first call that raises ends it
RECURSIVE SummarizeUntilRaise(_, _, _)
SummarizeUntilRaise(list, outcomes, base) ==
    IF list = <<>> THEN <<>>
    ELSE IF \E k \in 1..(base + 1) : outcomes[k] = "raise" THEN list
    ELSE << SummarizeOne(Head(list), outcomes[base + 1]) >>
             \o SummarizeUntilRaise(Tail(list), outcomes, base + 1)

\* lines 208-216 on one list of the bundle; base calls were made before it
RECURSIVE SummarizeList(_, _, _)
SummarizeList(list, outcomes, base) ==
    IF list = <<>> THEN <<>>
    ELSE << SummarizeOne(Head(list), outcomes[base + 1]) >>
             \o SummarizeList(Tail(list), outcomes, base + 1)

\* line 207: the sections in the order of the dict
BundleList(bundle) == bundle.featured \o bundle.headlines \o bundle.technical

summarize_articles(bundle, outcomes) ==
    [featured  |-> SummarizeList(bundle.featured, outcomes, 0),
     headlines |-> SummarizeList(bundle.headlines, outcomes, Len(bundle.featured)),
     technical |-> SummarizeList(bundle.technical, outcomes,
                                 Len(bundle.featured) + Len(bundle.headlines))]

\* the articles the collectors hand over
ProcArticles ==
    { Article(<<"F", "e", "r", "r", "a", "r", "i", " ", "a", "e", "r", "o">>, <<>>, "Ferrari.com", "u1", 1, "Official"),
      Article(<<"T", "i", "f", "o", "s", "i", " ", "n", "e", "w">>, <<>>, "Autosport", "u2", 2, "General"),
      Article(<<>>, <<"L", "e", "c", "l", "e", "r", "c", " ", "s", "a", "i", "d">>, "FanBlog", "", 2, "Social Media"),
      Article(<<"M", "o", "n", "z", "a", " ", "G", "P">>, <<>>, "Autosport", "u4", 1, "Social Media"),
      Article(<<"F", "e", "r", "r", "a", "r", "i", " ", "A", "e", "r", "o", ".">>, <<>>, "Autosport", "u5", 2, "General"),
      Article(<<"S", "c", "u", "d", "e", "r", "i", "a">>, <<>>, "FanBlog", "u6", 1, "General"),
      Article(<<"H", "a", "m", "i", "l", "t", "o", "n", " ", "w", "i", "n", "g">>, <<>>, "F1 Official", "", 2, "Official") }

ProcIdle ==
    /\ pa_articles = <<>>
    /\ ferrari_articles = <<>>
    /\ pa_unique = <<>>
    /\ prioritized = <<>>
    /\ selected = EmptyBundle
    /\ pa_pc = "idle"
    /\ pa_available = FALSE
    /\ pa_outcomes = <<>>

\* scrape_all hands over list(set(articles)): no two of one lower-cased title
ProcInit ==
    /\ \E n \in 0..MaxProcessed :
         \E a \in [1..n -> ProcArticles] :
             /\ \A i, j \in 1..n : i # j => ~ArticleEq(a[i], a[j])
             /\ pa_articles = a
    /\ ferrari_articles = <<>>
    /\ pa_unique = <<>>
    /\ prioritized = <<>>
    /\ selected = EmptyBundle
    /\ pa_pc = "start"
    /\ pa_available = FALSE
    /\ pa_outcomes = <<>>

\* line 187
ProcFilter ==
    /\ pa_pc = "start"
    /\ ferrari_articles' = filter_ferrari_content(pa_articles)
    /\ pa_articles' = Categorized(pa_articles)
    /\ pa_pc' = "filtered"
    /\ UNCHANGED <<pa_unique, prioritized, selected>>
    /\ UNCHANGED <<pa_available, pa_outcomes>>
    /\ UNCHANGED allButProcess

\* line 190
ProcDeduplicate ==
    /\ pa_pc = "filtered"
    /\ pa_unique' = deduplicate(ferrari_articles)
    /\ pa_pc' = "deduplicated"
    /\ UNCHANGED <<pa_articles, ferrari_articles, prioritized, selected>>
    /\ UNCHANGED <<pa_available, pa_outcomes>>
    /\ UNCHANGED allButProcess

\* line 193
ProcPrioritize ==
    /\ pa_pc = "deduplicated"
    /\ prioritized' = Prioritize(pa_unique)
    /\ pa_pc' = "prioritized"
    /\ UNCHANGED <<pa_articles, ferrari_articles, pa_unique, selected>>
    /\ UNCHANGED <<pa_available, pa_outcomes>>
    /\ UNCHANGED allButProcess

\* line 196
ProcSelect ==
    /\ pa_pc = "prioritized"
    /\ selected' = select_top_articles(prioritized)
    /\ pa_pc' = "selected"
    /\ UNCHANGED <<pa_articles, ferrari_articles, pa_unique, prioritized>>
    /\ UNCHANGED <<pa_available, pa_outcomes>>
    /\ UNCHANGED allButProcess

\* lines 199-203: with the summarizer module imported, every selected
\* article goes through summarize_article; then the bundle is returned
ProcSummarize ==
    /\ pa_pc = "selected"
    /\ \E available \in BOOLEAN :
         /\ pa_available' = available
         /\ IF available
            THEN \E outcomes \in [1..Len(BundleList(selected)) -> SummarizeOutcomes] :
                    /\ \A k \in DOMAIN outcomes :
                          /\ outcomes[k] = "text" => BundleList(selected)[k].url # ""
                          /\ outcomes[k] = "same" => BundleList(selected)[k].summary # <<>>
                          /\ outcomes[k] = "empty" =>
                                \/ BundleList(selected)[k].summary = <<>>
                                \/ BundleList(selected)[k].url # ""
                    /\ pa_outcomes' = outcomes
                    /\ selected' = summarize_articles(selected, outcomes)
            ELSE UNCHANGED <<selected, pa_outcomes>>
    /\ pa_pc' = "returned"
    /\ UNCHANGED <<pa_articles, ferrari_articles, pa_unique, prioritized>>
    /\ UNCHANGED allButProcess

ProcNext == ProcFilter \/ ProcDeduplicate \/ ProcPrioritize \/ ProcSelect \/ ProcSummarize

----------------------------------------------------------------------------
(* clean_bot_messages called on its own *)

LongParagraph == [LongSentence EXCEPT !.par = TRUE]
LeadParagraph == [LeadSentence EXCEPT !.par = TRUE]
BotInline     == [BotSentence EXCEPT !.par = FALSE]

ScrubPool == { LeadSentence, LeadParagraph, LongSentence, LongParagraph,
               BotSentence, BotInline }

ScrubIdle ==
    /\ cb_text = <<>>
    /\ cb_result = <<>>
    /\ cb_pc = "idle"

ScrubInit ==
    /\ \E n \in 0..MaxScrubbed :
         \E t \in [1..n -> ScrubPool] : cb_text = NormText(t)
    /\ cb_result = <<>>
    /\ cb_pc = "called"

ScrubCall ==
    /\ cb_pc = "called"
    /\ cb_result' = clean_bot_messages(cb_text)
    /\ cb_pc' = "returned"
    /\ UNCHANGED cb_text
    /\ UNCHANGED allButScrub

ScrubNext == ScrubCall

----------------------------------------------------------------------------
(* SubscriberManager (subscriber_manager.py): the subscribers table of the  *)
(* SQLite database, email TEXT UNIQUE NOT NULL, active INTEGER.  An email   *)
(* is a sequence of one-character strings.                                  *)

Whitespace == { " ", "\t", "\n" }

\* str.strip()
RECURSIVE Strip(_)
Strip(s) ==
    IF s = <<>> THEN s
    ELSE IF Head(s) \in Whitespace THEN Strip(Tail(s))
    ELSE IF s[Len(s)] \in Whitespace THEN Strip(SubSeq(s, 1, Len(s) - 1))
    ELSE s

\* lines 61 and 89: email.lower().strip()
Normalize(email) == Strip(Lower(email))

Letters == { "a", "b", "c", "d", "e", "f", "g", "h", "i", "j", "k", "l", "m",
             "n", "o", "p", "q", "r", "s", "t", "u", "v", "w", "x", "y", "z" }
              \cup DOMAIN UpperToLower
Digits == { "0", "1", "2", "3", "4", "5", "6", "7", "8", "9" }
\* [a-zA-Z0-9._%+-] and [a-zA-Z0-9.-]
LocalChars == Letters \cup Digits \cup { ".", "_", "%", "+", "-" }
DomainChars == Letters \cup Digits \cup { ".", "-" }

AllIn(s, from, to, chars) == \A i \in from..to : s[i] \in chars

\* anything with an "@" in it
HasAtSign(email) == \E i \in 1..Len(email) : email[i] = "@"

\* lines 146-148: ^[a-zA-Z0-9._%+-]+@[a-zA-Z0-9.-]+\.[a-zA-Z]{2,}$
is_valid_email(email) ==
    \E at \in 2..Len(email) :
        /\ email[at] = "@"
        /\ AllIn(email, 1, at - 1, LocalChars)
        /\ \E dot \in (at + 2)..(Len(email) - 2) :
              /\ email[dot] = "."
              /\ AllIn(email, at + 1, dot - 1, DomainChars)
              /\ AllIn(email, dot + 1, Len(email), Letters)

HasRow(rows, email) == \E i \in 1..Len(rows) : rows[i].email = email

\* a second row for an email that has one
UpsertAppending(rows, email) == Append(rows, [email |-> email, active |-> TRUE])

\* lines 71-77: INSERT ... ON CONFLICT(email) DO UPDATE SET active = 1
Upsert(rows, email) ==
    IF HasRow(rows, email)
    THEN [i \in 1..Len(rows) |->
            IF rows[i].email = email THEN [rows[i] EXCEPT !.active = TRUE] ELSE rows[i]]
    ELSE Append(rows, [email |-> email, active |-> TRUE])

\* lines 94-98: UPDATE subscribers SET active = 0 WHERE email = ?
Deactivate(rows, email) ==
    [i \in 1..Len(rows) |->
        IF rows[i].email = email THEN [rows[i] EXCEPT !.active = FALSE] ELSE rows[i]]

IsActive(row) == row.active

\* lines 115-124: the emails of the rows WHERE active = 1
get_active_subscribers(rows) ==
    LET found == SelectSeq(rows, IsActive)
    IN  [i \in 1..Len(found) |-> found[i].email]

\* lines 131-142
get_stats(rows) ==
    [total_subscribers |-> Len(rows),
     active_subscribers |-> Len(SelectSeq(rows, IsActive))]

\* the emails callers give: two addresses in several spellings, and strings
\* that are no address
GivenEmails ==
    { <<"a", "@", "b", ".", "i", "o">>,
      <<" ", "A", "@", "B", ".", "i", "o", " ">>,
      <<"c", "-", "d", "@", "e", ".", "o", "r", "g">>,
      <<"C", "-", "D", "@", "E", ".", "O", "R", "G", "\n">>,
      <<"a", "b", ".", "i", "o">>,
      <<"a", "@", "b">>,
      <<"a", "@", "b", ".", "i">>,
      <<>> }

SubscribersIdle ==
    /\ sub_rows = <<>>
    /\ sub_result = [success |-> FALSE]
    /\ sub_log = <<>>

\* a database just created by _init_database: the table is empty
SubscribersInit ==
    /\ sub_rows = <<>>
    /\ sub_result = [success |-> FALSE]
    /\ sub_log = <<>>

Logged(op, given, success) == [op |-> op, email |-> given, success |-> success]

\* lines 51-85; db_ok is FALSE when sqlite3 raises sqlite3.Error on the insert
Subscribe ==
    /\ Len(sub_log) < MaxSubscriberCalls
    /\ \E given \in GivenEmails, db_ok \in BOOLEAN :
         LET email == Normalize(given)
         IN  IF ~is_valid_email(email)
             THEN /\ sub_result' = [success |-> FALSE, error |-> "Invalid email address"]
                  /\ sub_log' = Append(sub_log, Logged("subscribe", given, FALSE))
                  /\ UNCHANGED sub_rows
             ELSE IF ~db_ok
             THEN /\ sub_result' = [success |-> FALSE, error |-> "Database error"]
                  /\ sub_log' = Append(sub_log, Logged("subscribe", given, FALSE))
                  /\ UNCHANGED sub_rows
             ELSE /\ sub_rows' = Upsert(sub_rows, email)
                  /\ sub_result' = [success |-> TRUE, message |-> "Successfully subscribed"]
                  /\ sub_log' = Append(sub_log, Logged("subscribe", given, TRUE))
    /\ UNCHANGED allButSubscribers

\* lines 87-107
Unsubscribe ==
    /\ Len(sub_log) < MaxSubscriberCalls
    /\ \E given \in GivenEmails :
         LET email == Normalize(given)
         IN  IF HasRow(sub_rows, email)
             THEN /\ sub_rows' = Deactivate(sub_rows, email)
                  /\ sub_result' = [success |-> TRUE, message |-> "Successfully unsubscribed"]
                  /\ sub_log' = Append(sub_log, Logged("unsubscribe", given, TRUE))
             ELSE /\ sub_result' = [success |-> FALSE, error |-> "Email not found"]
                  /\ sub_log' = Append(sub_log, Logged("unsubscribe", given, FALSE))
                  /\ UNCHANGED sub_rows
    /\ UNCHANGED allButSubscribers

SubscribersNext == Subscribe \/ Unsubscribe

----------------------------------------------------------------------------
(* EmailSender.send (email_sender.py) and NewsletterGenerator.send           *)
(* (main.py).  Messages are sequences of one-character strings; <<>> is ""   *)
(* and None.                                                                 *)

\* "Restriction of the Resend Free Tier"
FreeTierPhrase ==
    <<"R", "e", "s", "t", "r", "i", "c", "t", "i", "o", "n", " ", "o", "f",
      " ", "t", "h", "e", " ", "R", "e", "s", "e", "n", "d", " ", "F", "r",
      "e", "e", " ", "T", "i", "e", "r">>

\* "Testing Mode"
TestingModePhrase ==
    <<"T", "e", "s", "t", "i", "n", "g", " ", "M", "o", "d", "e">>

\* line 220
FreeTierMessage ==
    <<"R", "e", "s", "e", "n", "d", " ", "F", "r", "e", "e", " ", "T", "i",
      "e", "r", " ", "R", "e", "s", "t", "r", "i", "c", "t", "i", "o", "n",
      ":", " ", "Y", "o", "u", " ", "c", "a", "n", " ", "o", "n", "l", "y",
      " ", "s", "e", "n", "d", " ", "t", "o", " ", "y", "o", "u", "r", " ",
      "o", "w", "n", " ", "v", "e", "r", "i", "f", "i", "e", "d", " ", "e",
      "m", "a", "i", "l", ".">>

\* line 164
ConfigurationMissing ==
    <<"E", "m", "a", "i", "l", " ", "c", "o", "n", "f", "i", "g", "u", "r",
      "a", "t", "i", "o", "n", " ", "m", "i", "s", "s", "i", "n", "g", " ",
      "(", "n", "o", " ", "R", "e", "s", "e", "n", "d", " ", "k", "e", "y",
      " ", "o", "r", " ", "S", "M", "T", "P", " ", "c", "r", "e", "d", "e",
      "n", "t", "i", "a", "l", "s", ")", "!">>

\* line 172
SmtpFailed ==
    <<"S", "M", "T", "P", " ", "d", "e", "l", "i", "v", "e", "r", "y", " ",
      "f", "a", "i", "l", "e", "d", ".", " ", "C", "h", "e", "c", "k", " ",
      "s", "e", "r", "v", "e", "r", " ", "l", "o", "g", "s", ".">>

\* line 172
SmtpFailedAfterResend ==
    <<"S", "M", "T", "P", " ", "d", "e", "l", "i", "v", "e", "r", "y", " ",
      "f", "a", "i", "l", "e", "d", " ", "a", "f", "t", "e", "r", " ", "R",
      "e", "s", "e", "n", "d", " ", "f", "a", "i", "l", "u", "r", "e", ".",
      " ", "C", "h", "e", "c", "k", " ", "s", "e", "r", "v", "e", "r", " ",
      "l", "o", "g", "s", ".">>

\* messages of the exceptions resend.Emails.send raises
FreeTierRaised ==
    <<"R", "e", "s", "t", "r", "i", "c", "t", "i", "o", "n", " ", "o", "f",
      " ", "t", "h", "e", " ", "R", "e", "s", "e", "n", "d", " ", "F", "r",
      "e", "e", " ", "T", "i", "e", "r", ":", " ", "v", "e", "r", "i", "f",
      "y", " ", "a", " ", "d", "o", "m", "a", "i", "n">>

TestingModeRaised ==
    <<"T", "e", "s", "t", "i", "n", "g", " ", "M", "o", "d", "e", ":", " ",
      "o", "n", "l", "y", " ", "y", "o", "u", "r", " ", "o", "w", "n", " ",
      "a", "d", "d", "r", "e", "s", "s">>

InvalidKeyRaised ==
    <<"A", "P", "I", " ", "k", "e", "y", " ", "i", "s", " ", "i", "n", "v",
      "a", "l", "i", "d">>

ResendAnswers ==
    { [ok |-> TRUE, message |-> <<>>],
      [ok |-> FALSE, message |-> FreeTierRaised],
      [ok |-> FALSE, message |-> TestingModeRaised],
      [ok |-> FALSE, message |-> InvalidKeyRaised] }

\* lines 216-221: the message _send_via_resend returns for an exception
ResendMessage(message) ==
    IF Contains(FreeTierPhrase, message) THEN FreeTierMessage ELSE message

\* lines 174-221: (success, error_msg)
send_via_resend(answer) ==
    IF answer.ok THEN <<TRUE, <<>>>> ELSE <<FALSE, ResendMessage(answer.message)>>

\* line 156
IsRestriction(error_msg) ==
    Contains(FreeTierPhrase, error_msg) \/ Contains(TestingModePhrase, error_msg)

\* truth value of a Python tuple: true unless it is empty
Truthy(value) == Len(value) > 0

SendIdle ==
    /\ resend_api_key = FALSE /\ username = FALSE /\ password = FALSE
    /\ resend_answer = [ok |-> TRUE, message |-> <<>>]
    /\ smtp_answer = FALSE
    /\ resend_error = <<>>
    /\ resend_tried = FALSE /\ smtp_tried = FALSE
    /\ em_result = <<>>
    /\ em_pc = "idle"
    /\ nl_branch = "none"
    /\ nl_result = <<>>
    /\ nl_pc = "idle"

\* NewsletterGenerator.send is called with rendered html, the sender as
\* EmailSender.__init__ (lines 116-136) configured it
SendInit ==
    /\ resend_api_key \in BOOLEAN /\ username \in BOOLEAN /\ password \in BOOLEAN
    /\ resend_answer \in ResendAnswers
    /\ smtp_answer \in BOOLEAN
    /\ resend_error = <<>>
    /\ resend_tried = FALSE /\ smtp_tried = FALSE
    /\ em_result = <<>>
    /\ em_pc = "idle"
    /\ nl_branch = "none"
    /\ nl_result = <<>>
    /\ nl_pc = "called"

\* main.py lines 95-96: success = self.sender.send(html, recipients)
NewsletterSendCall ==
    /\ nl_pc = "called"
    /\ nl_pc' = "sending"
    /\ em_pc' = "called"
    /\ UNCHANGED <<resend_api_key, username, password, resend_answer, smtp_answer,
                   resend_error, resend_tried, smtp_tried, em_result, nl_branch, nl_result>>
    /\ UNCHANGED allButSend

\* email_sender.py lines 149-160
SendViaResend ==
    /\ em_pc = "called"
    /\ resend_api_key
    /\ resend_tried' = TRUE
    /\ LET sent == send_via_resend(resend_answer)
       IN  IF sent[1]
           THEN /\ em_result' = <<TRUE, <<>>>>
                /\ em_pc' = "returned"
                /\ UNCHANGED resend_error
           ELSE IF IsRestriction(sent[2])
           THEN /\ resend_error' = sent[2]
                /\ em_pc' = "smtp"
                /\ UNCHANGED em_result
           ELSE /\ em_result' = <<FALSE, sent[2]>>
                /\ em_pc' = "returned"
                /\ UNCHANGED resend_error
    /\ UNCHANGED <<resend_api_key, username, password, resend_answer, smtp_answer,
                   smtp_tried, nl_branch, nl_result, nl_pc>>
    /\ UNCHANGED allButSend

\* line 149 with no key
SkipResend ==
    /\ em_pc = "called"
    /\ ~resend_api_key
    /\ em_pc' = "smtp"
    /\ UNCHANGED <<resend_api_key, username, password, resend_answer, smtp_answer,
                   resend_error, resend_tried, smtp_tried, em_result,
                   nl_branch, nl_result, nl_pc>>
    /\ UNCHANGED allButSend

\* lines 163-172
SendViaSmtp ==
    /\ em_pc = "smtp"
    /\ IF ~username \/ ~password
       THEN /\ em_result' = <<FALSE, IF resend_error # <<>> THEN resend_error
                                     ELSE ConfigurationMissing>>
            /\ UNCHANGED smtp_tried
       ELSE /\ smtp_tried' = TRUE
            /\ em_result' = IF smtp_answer THEN <<TRUE, <<>>>>
                            ELSE <<FALSE, IF resend_error # <<>> THEN SmtpFailedAfterResend
                                          ELSE SmtpFailed>>
    /\ em_pc' = "returned"
    /\ UNCHANGED <<resend_api_key, username, password, resend_answer, smtp_answer,
                   resend_error, resend_tried, nl_branch, nl_result, nl_pc>>
    /\ UNCHANGED allButSend

\* main.py lines 96-103: the tuple is tested and returned as it is
NewsletterSendReturn ==
    /\ nl_pc = "sending"
    /\ em_pc = "returned"
    /\ nl_branch' = IF Truthy(em_result) THEN "success" ELSE "failure"
    /\ nl_result' = em_result
    /\ nl_pc' = "returned"
    /\ UNCHANGED <<resend_api_key, username, password, resend_answer, smtp_answer,
                   resend_error, resend_tried, smtp_tried, em_result, em_pc>>
    /\ UNCHANGED allButSend

SendNext ==
    \/ NewsletterSendCall
    \/ SendViaResend
    \/ SkipResend
    \/ SendViaSmtp
    \/ NewsletterSendReturn

----------------------------------------------------------------------------
(* Specifications: each runs one operation on every input of its bounded   *)
(* sets, the state of the other operations left idle.                      *)

InitDedup ==
    DedupInit /\ RankIdle /\ SelectIdle /\ SumIdle /\ ExtractIdle /\ CatIdle
        /\ ProcIdle /\ ScrubIdle /\ SubscribersIdle /\ SendIdle
SpecDedup == InitDedup /\ [][DedupNext]_vars

InitDedupSteps ==
    DedupStepInit /\ RankIdle /\ SelectIdle /\ SumIdle /\ ExtractIdle
        /\ CatIdle /\ ProcIdle /\ ScrubIdle /\ SubscribersIdle /\ SendIdle
SpecDedupSteps == InitDedupSteps /\ [][DedupNext]_vars

InitRank ==
    RankInit /\ DedupIdle /\ SelectIdle /\ SumIdle /\ ExtractIdle /\ CatIdle
        /\ ProcIdle /\ ScrubIdle /\ SubscribersIdle /\ SendIdle
SpecRank == InitRank /\ [][RankNext]_vars

InitSelect ==
    SelectInit /\ DedupIdle /\ RankIdle /\ SumIdle /\ ExtractIdle /\ CatIdle
        /\ ProcIdle /\ ScrubIdle /\ SubscribersIdle /\ SendIdle
SpecSelect == InitSelect /\ [][SelectNext]_vars

InitSummarize ==
    SumInit /\ DedupIdle /\ RankIdle /\ SelectIdle /\ ExtractIdle /\ CatIdle
        /\ ProcIdle /\ ScrubIdle /\ SubscribersIdle /\ SendIdle
SpecSummarize == InitSummarize /\ [][SumNext]_vars

InitExtract ==
    ExtractInit /\ DedupIdle /\ RankIdle /\ SelectIdle /\ SumIdle /\ CatIdle
        /\ ProcIdle /\ ScrubIdle /\ SubscribersIdle /\ SendIdle
SpecExtract == InitExtract /\ [][ExtractNext]_vars

InitCategorize ==
    CatInit /\ DedupIdle /\ RankIdle /\ SelectIdle /\ SumIdle /\ ExtractIdle
        /\ ProcIdle /\ ScrubIdle /\ SubscribersIdle /\ SendIdle
SpecCategorize == InitCategorize /\ [][CatNext]_vars

InitProcess ==
    ProcInit /\ DedupIdle /\ RankIdle /\ SelectIdle /\ SumIdle /\ ExtractIdle
        /\ CatIdle /\ ScrubIdle /\ SubscribersIdle /\ SendIdle
SpecProcess == InitProcess /\ [][ProcNext]_vars

InitSummarizeCalls ==
    SumCallsInit /\ DedupIdle /\ RankIdle /\ SelectIdle /\ ExtractIdle
        /\ CatIdle /\ ProcIdle /\ ScrubIdle /\ SubscribersIdle /\ SendIdle
SpecSummarizeCalls == InitSummarizeCalls /\ [][SumCallsNext]_vars

InitSubscribers ==
    SubscribersInit /\ DedupIdle /\ RankIdle /\ SelectIdle /\ SumIdle
        /\ ExtractIdle /\ CatIdle /\ ProcIdle /\ ScrubIdle /\ SendIdle
SpecSubscribers == InitSubscribers /\ [][SubscribersNext]_vars

InitSend ==
    SendInit /\ DedupIdle /\ RankIdle /\ SelectIdle /\ SumIdle /\ ExtractIdle
        /\ CatIdle /\ ProcIdle /\ ScrubIdle /\ SubscribersIdle
SpecSend == InitSend /\ [][SendNext]_vars

InitScrub ==
    ScrubInit /\ DedupIdle /\ RankIdle /\ SelectIdle /\ SumIdle /\ ExtractIdle
        /\ CatIdle /\ ProcIdle /\ SubscribersIdle /\ SendIdle
SpecScrub == InitScrub /\ [][ScrubNext]_vars

----------------------------------------------------------------------------
(* Properties of deduplicate *)

DedupFirstDone == dd_pc = "returned" /\ dd_call = 1
DedupSecondDone == dd_pc = "returned" /\ dd_call = 2

\* the article given at input position i is in the first call's result
Survives(i) == \E k \in 1..Len(dd_first) : dd_first[k].url = i

TitleSimilar(x, y) == RatioAbove(TitleSim(x, y), title_threshold)

\* C1: deduplicate is idempotent: deduplicate run on its own output returns
\* that output, same candidates in the same order.
C1_DedupIdempotent == DedupSecondDone => unique_articles = dd_first

\* C2: in the output no two candidates have title similarity above the title
\* threshold; of two such candidates of the input at most one survives, and
\* it is the one from the higher-authority source, the earlier one on a tie.
C2_NoSimilarPairSurvives ==
    DedupFirstDone =>
        /\ \A k, l \in 1..Len(dd_first) :
              k < l => ~TitleSimilar(dd_first[l], dd_first[k])
        /\ \A i, j \in 1..Len(dd_input) :
              (i < j /\ TitleSimilar(dd_input[j], dd_input[i])) =>
                 /\ ~(Survives(i) /\ Survives(j))
                 /\ Survives(i) =>
                       get_source_priority(dd_input[i].source)
                          >= get_source_priority(dd_input[j].source)
                 /\ Survives(j) =>
                       get_source_priority(dd_input[j].source)
                          > get_source_priority(dd_input[i].source)

\* the input is exactly two candidates that are duplicates of each other
TwoDuplicates ==
    /\ Len(dd_input) = 2
    /\ IsDuplicate(dd_input[2], dd_input[1])
    /\ IsDuplicate(dd_input[1], dd_input[2])

\* C3: of exactly two candidates that are duplicates of each other,
\* deduplicate returns exactly one: the one of strictly higher source rank
\* wherever it stands in the input, the first one when the ranks are equal.
C3_TwoDuplicatesKeepOne ==
    (DedupFirstDone /\ TwoDuplicates) =>
        dd_first =
            IF get_source_priority(dd_input[2].source)
                  > get_source_priority(dd_input[1].source)
            THEN <<dd_input[2]>>
            ELSE <<dd_input[1]>>

\* both orders of a strict rank difference, a tie of unknown sources, and
\* Ferrari.com against Autosport, have been deduplicated
C3_Witness ==
    /\ DedupFirstDone
    /\ TwoDuplicates
    /\ dd_input[1].source = "Autosport"
    /\ dd_input[2].source = "Ferrari.com"
    /\ dd_first = <<dd_input[2]>>

----------------------------------------------------------------------------
(* Properties of select_top_articles *)

SelectDone == sel_pc = "returned"

Placed == Len(featured) + Len(regular) + Len(technical)

\* the article given at input position p is in the list
InList(list, p) == \E k \in 1..Len(list) : list[k].url = p

\* C4: with non-negative capacities no returned list is longer than its
\* capacity, and the number of candidates placed is at most the sum of the
\* capacities and at most the length of the input.
C4_CapacitiesRespected ==
    SelectDone =>
        /\ Len(featured) <= max_featured
        /\ Len(regular) <= max_regular
        /\ Len(technical) <= max_technical
        /\ Placed <= max_featured + max_regular + max_technical
        /\ Placed <= Len(sel_articles)

\* every list was filled to its (positive) capacity and a candidate was dropped
C4_Witness ==
    /\ SelectDone
    /\ max_featured > 0 /\ Len(featured) = max_featured
    /\ max_regular > 0 /\ Len(regular) = max_regular
    /\ max_technical > 0 /\ Len(technical) = max_technical
    /\ Placed < Len(sel_articles)

\* C5 (as claimed): a Technical candidate that arrives when the technical
\* bucket is full is dropped, so featured and headlines never contain a
\* Technical candidate.
C5_TechnicalOverflowDropped ==
    /\ \A k \in 1..Len(featured) : featured[k].category # "Technical"
    /\ \A k \in 1..Len(regular) : regular[k].category # "Technical"

\* the Technical candidates given before input position p
TechnicalBefore(p) ==
    Cardinality({ q \in 1..(p - 1) : sel_articles[q].category = "Technical" })

\* C5 (amended): a Technical candidate goes to the technical list while that
\* has room; one that arrives when it is full is treated like any other
\* candidate: featured if that has room, else headlines if that has room,
\* and dropped only when both are full.  So the Technical candidates of
\* featured and headlines are exactly overflow of the technical list.
C5_TechnicalOverflowFallsThrough ==
    \A p \in 1..(sel_idx - 1) :
        sel_articles[p].category = "Technical" =>
            IF TechnicalBefore(p) < max_technical
            THEN InList(technical, p)
            ELSE /\ ~InList(technical, p)
                 /\ \/ InList(featured, p)
                    \/ InList(regular, p) /\ Len(featured) = max_featured
                    \/ Len(featured) = max_featured /\ Len(regular) = max_regular

\* Technical overflow has been placed in featured and in headlines
C5_Witness ==
    /\ SelectDone
    /\ max_technical > 0
    /\ Len(technical) = max_technical
    /\ \E k \in 1..Len(featured) : featured[k].category = "Technical"
    /\ \E k \in 1..Len(regular) : regular[k].category = "Technical"

----------------------------------------------------------------------------
(* Properties of prioritize *)

RankDone == rk_pc = "returned"

\* the composite key the ranker is specified to sort by
CompositeKey(a) ==
    <<category_score(a.category), keyword_score(a), a.published_date>>

RECURSIVE CompositeKeys(_)
CompositeKeys(list) ==
    IF list = <<>> THEN <<>> ELSE <<CompositeKey(Head(list))>> \o CompositeKeys(Tail(list))

\* input position i is placed before input position j in the output
RankedBefore(i, j) ==
    \E k, l \in 1..Len(sorted_articles) :
        k < l /\ sorted_articles[k].url = i /\ sorted_articles[l].url = j

\* C6: prioritize is a stable sort: two candidates with identical (category
\* weight, keyword count, timestamp) keep their input order in the output.
C6_PrioritizeStable ==
    RankDone =>
        LET keys == CompositeKeys(rk_articles)
        IN  \A i, j \in 1..Len(rk_articles) :
                (i < j /\ keys[i] = keys[j]) => RankedBefore(i, j)

\* two candidates of equal key were followed by one of a greater key, which
\* the sort moved in front of them
C6_Witness ==
    /\ RankDone
    /\ Len(rk_articles) = 3
    /\ CompositeKey(rk_articles[1]) = CompositeKey(rk_articles[2])
    /\ KeyLess(CompositeKey(rk_articles[2]), CompositeKey(rk_articles[3]))
    /\ sorted_articles = <<rk_articles[3], rk_articles[1], rk_articles[2]>>

\* C7: the output of prioritize is a permutation of its input whose
\* composite key never increases from one element to the next: category
\* weight first, then keyword hit count, then the newer timestamp.
C7_PrioritizeSortedPermutation ==
    RankDone =>
        /\ Len(sorted_articles) = Len(rk_articles)
        /\ \A i \in 1..Len(rk_articles) :
              \E k \in 1..Len(sorted_articles) : sorted_articles[k] = rk_articles[i]
        /\ LET keys == CompositeKeys(sorted_articles)
           IN  \A k \in 1..(Len(sorted_articles) - 1) : ~KeyLess(keys[k], keys[k + 1])

\* each component of the key decided one adjacent pair: a lower-weight
\* category, then fewer keyword hits, then an older timestamp came first
C7_Witness ==
    /\ RankDone
    /\ Len(rk_articles) = 3
    /\ sorted_articles = <<rk_articles[3], rk_articles[2], rk_articles[1]>>
    /\ CompositeKey(rk_articles[3])[1] = CompositeKey(rk_articles[2])[1]
    /\ CompositeKey(rk_articles[3])[2] = CompositeKey(rk_articles[2])[2]
    /\ CompositeKey(rk_articles[3])[3] > CompositeKey(rk_articles[2])[3]
    /\ CompositeKey(rk_articles[2])[1] = CompositeKey(rk_articles[1])[1]
    /\ CompositeKey(rk_articles[2])[2] > CompositeKey(rk_articles[1])[2]

----------------------------------------------------------------------------
(* Properties of summarize_article *)

SumDone == sum_pc = "returned"

\* the text available to the chain: the supplied or fetched full text, else
\* the summary
AvailableText == IF full_text # <<>> THEN full_text ELSE summary

\* C8: when the available text is shorter than 200 characters,
\* summarize_article returns the summary argument unchanged, and neither the
\* generative summarizer nor extractive_summarize is invoked.
C8_LengthGateNoOp ==
    (SumDone /\ Length(AvailableText) < 200) =>
        /\ result = summary
        /\ ~generative_tried
        /\ extractive_calls = 0

\* a fetched page under the gate sent back a long summary untouched
C8_Witness ==
    /\ SumDone
    /\ fetch_called
    /\ full_text # <<>>
    /\ Length(full_text) < 200
    /\ Length(summary) > 600
    /\ result = summary

\* C9: whatever the inputs and the outcomes of the fetch and generative
\* stages, the text summarize_article returns is at most 600 characters long.
C9_AtMost600Chars == SumDone => Length(result) <= 600

\* C10: summarize_article never raises to its caller: whatever the fetch and
\* the generative stage do, it goes on until it returns a text.
C10_NeverRaises ==
    /\ sum_pc # "raised"
    /\ sum_pc \in { "start", "gate", "generative", "extractive", "scrub", "cap" }
          => ENABLED SumNext

\* the fetch brought nothing, the generative stage failed, and the call
\* still returned a text
C10_Witness ==
    /\ SumDone
    /\ fetch_called
    /\ full_text = <<>>
    /\ generative_tried
    /\ ls_instance = "None"
    /\ result # <<>>

\* C11: a text given to summarize_article that contains a bot-challenge
\* phrase and is under 500 characters long comes back as the fixed
\* placeholder, whichever stages handled it.
C11_BotTextGivesPlaceholder ==
    (SumDone /\ HasBotMessage(AvailableText) /\ Length(AvailableText) < 500)
        => result = Placeholder

ExtractDone == ex_pc = "returned"

\* a 5-sentence text whose first sentence has a domain keyword and 20 words,
\* summarized to 2 sentences
LeadOfFive ==
    /\ ExtractDone
    /\ Len(ex_text) = 5
    /\ ex_n = 2
    /\ ex_text[1].key >= 1
    /\ ex_text[1].words = 20

Outscoring(text) ==
    { j \in 2..Len(text) : SentenceScore(text[j], j) > SentenceScore(text[1], 1) }

\* the best of the other sentences, the earliest of them on equal scores
BestOther(text) ==
    CHOOSE j \in 2..Len(text) :
        \A m \in (2..Len(text)) \ {j} :
            \/ SentenceScore(text[j], j) > SentenceScore(text[m], m)
            \/ SentenceScore(text[j], j) = SentenceScore(text[m], m) /\ j < m

CatDone == cat_pc = "returned"

\* the keyword-match score of the i-th declared category on the article's text
DeclaredScore(i) == CategoryScore(CATEGORY_ORDER[i], ArticleText(cat_article))

\* C13: _categorize returns the category whose keyword-match score is
\* maximal, the first-declared one (Race Weekend, Technical, Driver News,
\* Strategy) when several tie for the maximum, and "General" when no keyword
\* of any category matches.
C13_CategorizeFirstMaximum ==
    CatDone =>
        IF \A i \in 1..Len(CATEGORY_ORDER) : DeclaredScore(i) = 0
        THEN cat_result = "General"
        ELSE \E i \in 1..Len(CATEGORY_ORDER) :
                /\ cat_result = CATEGORY_ORDER[i]
                /\ \A j \in 1..Len(CATEGORY_ORDER) : DeclaredScore(j) <= DeclaredScore(i)
                /\ \A j \in 1..(i - 1) : DeclaredScore(j) < DeclaredScore(i)

\* Technical and Driver News tie for the maximum and Technical is returned
C13_Witness ==
    /\ CatDone
    /\ cat_result = "Technical"
    /\ DeclaredScore(2) > 0
    /\ DeclaredScore(3) = DeclaredScore(2)

ProcFiltered == pa_pc \notin { "idle", "start" }
ProcRanked == pa_pc \in { "prioritized", "selected", "returned" }

\* the text matches a Technical keyword and no keyword of another category
OnlyTechnical(article) ==
    LET text == ArticleText(article)
    IN  /\ CategoryScore("Technical", text) > 0
        /\ CategoryScore("Race Weekend", text) = 0
        /\ CategoryScore("Driver News", text) = 0
        /\ CategoryScore("Strategy", text) = 0

\* C14: a candidate whose text matches a Technical keyword and no keyword of
\* any other category is categorized "Technical", and prioritize places every
\* Technical candidate before every General one, whatever their
\* priority-keyword counts and timestamps.
C14_TechnicalBeforeGeneral ==
    /\ ProcFiltered =>
          \A i \in 1..Len(ferrari_articles) :
              OnlyTechnical(ferrari_articles[i]) => ferrari_articles[i].category = "Technical"
    /\ ProcRanked =>
          \A i, j \in 1..Len(prioritized) :
              (prioritized[i].category = "Technical" /\ prioritized[j].category = "General")
                  => i < j

\* a Technical candidate stands before a General one that has more priority
\* keywords and a later timestamp, and before one of its own timestamp
C14_Witness ==
    /\ ProcRanked
    /\ \E i, j, k \in 1..Len(prioritized) :
          /\ i < j /\ i < k
          /\ OnlyTechnical(prioritized[i])
          /\ prioritized[i].category = "Technical"
          /\ prioritized[j].category = "General"
          /\ keyword_score(prioritized[j]) > keyword_score(prioritized[i])
          /\ prioritized[j].published_date > prioritized[i].published_date
          /\ prioritized[k].category = "General"
          /\ prioritized[k].published_date = prioritized[i].published_date

\* the articles of a list with the category field left out of the comparison
RECURSIVE WithoutCategory(_)
WithoutCategory(list) ==
    IF list = <<>> THEN <<>>
    ELSE << [Head(list) EXCEPT !.category = ""] >> \o WithoutCategory(Tail(list))

\* the lower-cased title+summary text holds a domain keyword
HasDomainKeyword(article) ==
    \E k \in 1..Len(FERRARI_KEYWORDS) :
        Contains(FERRARI_KEYWORDS[k], Lower(article.title \o <<" ">> \o article.summary))

\* C15: filter_ferrari_content returns exactly the candidates of its input,
\* in input order, whose lower-cased title+summary text contains a domain
\* keyword (none of them: the empty list), each with its category set to
\* the result of _categorize.
C15_FilterKeepsRelatedInOrder ==
    ProcFiltered =>
        /\ WithoutCategory(ferrari_articles)
               = SelectSeq(WithoutCategory(pa_articles), HasDomainKeyword)
        /\ \A i \in 1..Len(ferrari_articles) :
               ferrari_articles[i].category = categorize(ferrari_articles[i])
        /\ (\A i \in 1..Len(pa_articles) : ~HasDomainKeyword(pa_articles[i]))
               => ferrari_articles = <<>>

\* of three candidates two are related and returned, the one that came
\* labelled "Official" now categorized
C15_Witness ==
    /\ ProcFiltered
    /\ Len(pa_articles) = 3
    /\ Len(ferrari_articles) = 2
    /\ \E i \in 1..2 :
          /\ ferrari_articles[i].source = "Ferrari.com"
          /\ ferrari_articles[i].category = "Technical"

\* what process_articles hands to prioritize
ProcDeduplicated == pa_pc \in { "deduplicated", "prioritized", "selected", "returned" }

ResolvedCategories == { "Race Weekend", "Technical", "Driver News", "Strategy", "General" }

\* C16: every candidate that reaches prioritize in process_articles has a
\* non-empty title and a resolved category, one of Race Weekend, Technical,
\* Driver News, Strategy, General, never a collector-assigned label.
C16_RankerInputWellFormed ==
    ProcDeduplicated =>
        \A i \in 1..Len(pa_unique) :
            /\ pa_unique[i].title # <<>>
            /\ pa_unique[i].category \in ResolvedCategories

\* the list holds articles of the input, at strictly increasing input positions
IsSubsequence(list) ==
    /\ \A k \in 1..Len(list) :
          /\ list[k].url \in 1..Len(sel_articles)
          /\ list[k] = sel_articles[list[k].url]
    /\ \A k \in 1..(Len(list) - 1) : list[k].url < list[k + 1].url

\* C17: select_top_articles returns the three lists featured, headlines and
\* technical; each is a subsequence of the ranked input, in input order, and
\* no input position is placed in more than one list.
C17_BundleOfDisjointSubsequences ==
    SelectDone =>
        /\ IsSubsequence(featured)
        /\ IsSubsequence(regular)
        /\ IsSubsequence(technical)
        /\ \A p \in 1..Len(sel_articles) :
               Cardinality({ l \in { "featured", "headlines", "technical" } :
                   InList(CASE l = "featured" -> featured
                            [] l = "headlines" -> regular
                            [] l = "technical" -> technical, p) }) <= 1

\* all three lists are in use, one of them with two candidates
C17_Witness ==
    /\ SelectDone
    /\ Len(featured) = 1
    /\ Len(regular) = 1
    /\ Len(technical) = 2

\* the first kept candidate that the claim's test calls a duplicate (0: none)
FirstSimilar(article, kept) ==
    LET similar(k) ==
            \/ RatioAbove(calculate_similarity(article.title, kept[k].title), title_threshold)
            \/ /\ RatioAbove(calculate_similarity(Prefix(article.summary, SummaryPrefixLen),
                                                   Prefix(kept[k].summary, SummaryPrefixLen)),
                              summary_threshold)
               /\ RatioAbove(calculate_similarity(article.title, kept[k].title), 4)
    IN  IF \E k \in 1..Len(kept) : similar(k)
        THEN CHOOSE k \in 1..Len(kept) : similar(k) /\ \A m \in 1..(k - 1) : ~similar(m)
        ELSE 0

RemoveAt(list, k) == SubSeq(list, 1, k - 1) \o SubSeq(list, k + 1, Len(list))

\* C18: a step of deduplicate scans the kept list in order and stops at the
\* first kept candidate K with title_sim > title_threshold or (summary_sim >
\* summary_threshold and title_sim > 0.4); with none the candidate is
\* appended; otherwise exactly K is replaced by the candidate when the
\* candidate's source strictly outranks K's, else the kept list is unchanged.
C18_StepReplacesFirstDuplicate ==
    [][ (dd_pc = "loop" /\ idx <= Len(articles) /\ idx' = idx + 1) =>
          LET article == articles[idx]
              k == FirstSimilar(article, unique_articles)
          IN  unique_articles' =
                  IF k = 0 THEN Append(unique_articles, article)
                  ELSE IF get_source_priority(article.source)
                              > get_source_priority(unique_articles[k].source)
                       THEN Append(RemoveAt(unique_articles, k), article)
                       ELSE unique_articles ]_vars

\* C19: the full-text fetch is attempted if and only if a url is present and
\* no full text was supplied; a supplied full text is never replaced by a
\* fetch; and when the fetch yields nothing the chain goes on with the
\* summary instead of failing.
C19_FetchOnlyWhenNeeded ==
    [][ /\ sum_pc = "start" =>
              /\ fetch_called' <=> (url # "" /\ full_text = <<>>)
              /\ full_text # <<>> => full_text' = full_text
        /\ (sum_pc = "gate" /\ fetch_called /\ full_text = <<>>) =>
              /\ text_to_summarize' = summary
              /\ sum_pc' \in { "returned", "generative" } ]_vars

\* the fetch brought nothing and the summary went through the extractive stage
C19_Witness ==
    /\ SumDone
    /\ fetch_called
    /\ full_text = <<>>
    /\ text_to_summarize = summary
    /\ extractive_calls >= 1

\* C20: once the length gate is passed the generative summarizer is tried
\* first; if it produces non-empty output summarize_article returns exactly
\* that output and no later stage runs; the extractive fallback runs only
\* when the generative stage produced nothing or failed.
C20_GenerativeBeforeExtractive ==
    [][ /\ sum_pc # "returned"
        /\ (sum_pc = "gate" /\ sum_pc' # "returned") => sum_pc' = "generative"
        /\ sum_pc = "generative" =>
              /\ generative_tried'
              /\ extractive_calls' = 0
              /\ IF ai_summary' # <<>>
                 THEN sum_pc' = "returned" /\ result' = ai_summary'
                 ELSE sum_pc' = "extractive"
        /\ sum_pc' = "extractive" => sum_pc = "generative"
        /\ extractive_calls' > extractive_calls =>
              generative_tried /\ ai_summary = <<>> ]_vars

\* the generative stage gave nothing, and the fallback and the final re-run
\* of extractive summarization both ran
C20_Witness ==
    /\ SumDone
    /\ generative_tried
    /\ ai_summary = <<>>
    /\ extractive_calls = 2

\* the members of a set of positions, ascending
RECURSIVE Ascending(_)
Ascending(S) ==
    IF S = {} THEN <<>>
    ELSE LET m == CHOOSE x \in S : \A y \in S : x <= y
         IN  <<m>> \o Ascending(S \ {m})

\* the sentence of a result is the sentence of the source: joining changes
\* only the separator that follows and the closing dots
SameSentence(r, s) ==
    /\ r.words = s.words /\ r.key = s.key /\ r.insider = s.insider
    /\ r.junk = s.junk /\ r.bot = s.bot

\* positions of the text with fewer than n sentences scoring strictly more
AmongHighest(text, n) ==
    { i \in 1..Len(text) :
        Cardinality({ j \in 1..Len(text) :
            SentenceScore(text[j], j) > SentenceScore(text[i], i) }) < n }

Selected == TopIndices(ex_text, ex_n)
Qualifying == { i \in Selected : ex_text[i].dots >= 3 \/ ex_text[i].chars < 40 }

\* C22: when more than one sentence was selected, the selected sentences that
\* end in "..." or are under 40 characters are dropped from the result,
\* unless all of them qualify, and then all are kept; the result always
\* holds at least one selected sentence.
C22_TruncatedDroppedUnlessAll ==
    (ExtractDone /\ ~ReturnsInput(ex_text, ex_n) /\ Cardinality(Selected) > 1) =>
        /\ ex_picked = (IF Qualifying = Selected THEN Selected ELSE Selected \ Qualifying)
        /\ ex_picked # {}
        /\ Len(ex_result) = Cardinality(ex_picked)
        /\ \A k \in 1..Len(ex_result) :
              SameSentence(ex_result[k], ex_text[Ascending(ex_picked)[k]])

\* a short sentence was selected and dropped, another selected one was kept
C22_Witness ==
    /\ ExtractDone /\ ~ReturnsInput(ex_text, ex_n)
    /\ \E i \in Qualifying : ex_text[i].chars < 40 /\ i \notin ex_picked
    /\ ex_picked # {}

\* text.split('\n\n'): the paragraphs of a text, each a sequence of sentences
RECURSIVE Paragraphs(_)
Paragraphs(text) ==
    IF text = <<>> THEN <<>>
    ELSE LET brk == { i \in 1..Len(text) : text[i].par \/ i = Len(text) }
             e == CHOOSE i \in brk : \A j \in brk : i <= j
         IN  <<SubSeq(text, 1, e)>> \o Paragraphs(SubSeq(text, e + 1, Len(text)))

\* paragraphs put back one after the other, a paragraph break between two
RECURSIVE Rejoined(_)
Rejoined(paragraphs) ==
    IF paragraphs = <<>> THEN <<>>
    ELSE LET p == paragraphs[1]
             closed == [p EXCEPT ![Len(p)] = [@ EXCEPT !.par = Len(paragraphs) > 1]]
         IN  closed \o Rejoined(Tail(paragraphs))

CleanParagraph(p) == \A i \in 1..Len(p) : ~p[i].bot

ScrubDone == cb_pc = "returned"

C24_ConstructedAtMostOnce == ls_inits <= 1

Elements(list) == { list[i] : i \in 1..Len(list) }

\* every article of the bundle is, field for field, one of the list
BundleFrom(bundle, list) ==
    Elements(bundle.featured) \cup Elements(bundle.headlines)
        \cup Elements(bundle.technical) \subseteq Elements(list)

\* C25: in process_articles the category of a candidate is written once, by
\* _categorize inside the relevance filter, and a candidate that fails the
\* filter keeps its category; deduplicate, prioritize and select_top_articles
\* change no field of any candidate and leave the list they were given as it
\* was, returning a new one.
C25_CategoryWrittenOnceByFilter ==
    [][ /\ pa_pc = "start" =>
              /\ Len(pa_articles') = Len(pa_articles)
              /\ \A i \in 1..Len(pa_articles) :
                    pa_articles'[i] =
                        IF is_ferrari_related(pa_articles[i])
                        THEN [pa_articles[i] EXCEPT !.category = categorize(pa_articles[i])]
                        ELSE pa_articles[i]
        /\ pa_pc = "filtered" =>
              /\ UNCHANGED <<pa_articles, ferrari_articles>>
              /\ Elements(pa_unique') \subseteq Elements(ferrari_articles)
        /\ pa_pc = "deduplicated" =>
              /\ UNCHANGED <<pa_articles, ferrari_articles, pa_unique>>
              /\ Elements(prioritized') \subseteq Elements(pa_unique)
        /\ pa_pc = "prioritized" =>
              /\ UNCHANGED <<pa_articles, ferrari_articles, pa_unique, prioritized>>
              /\ BundleFrom(selected', prioritized) ]_vars

\* selection is done; one candidate was categorized Technical by the filter
\* and another, unrelated, still has the category it came with
C25_Witness ==
    /\ pa_pc = "selected"
    /\ \E i, j \in 1..Len(pa_articles) :
          /\ ~is_ferrari_related(pa_articles[i])
          /\ pa_articles[i].category = "Social Media"
          /\ is_ferrari_related(pa_articles[j])
          /\ pa_articles[j].category = "Technical"
          /\ pa_articles[j] \in Elements(selected.technical)

\* the article but for its summary
SameButSummary(a, b) == [a EXCEPT !.summary = <<>>] = [b EXCEPT !.summary = <<>>]

\* C26: _summarize_articles isolates failures per article: where
\* summarize_article raises the summary stays, and the articles after it, in
\* every section, are still processed; a summary is overwritten only by a
\* non-empty result that differs from it; the sections keep their members
\* and their order.
C26_FailuresIsolatedPerArticle ==
    [][ (pa_pc = "selected" /\ pa_available') =>
          LET before == BundleList(selected)
              after == BundleList(selected')
          IN  /\ Len(selected'.featured) = Len(selected.featured)
              /\ Len(selected'.headlines) = Len(selected.headlines)
              /\ Len(selected'.technical) = Len(selected.technical)
              /\ Len(pa_outcomes') = Len(before)
              /\ \A k \in 1..Len(before) :
                    /\ SameButSummary(after[k], before[k])
                    /\ pa_outcomes'[k] = "raise" => after[k].summary = before[k].summary
                    /\ after[k].summary # before[k].summary =>
                          /\ after[k].summary # <<>>
                          /\ after[k].summary = Returned(before[k], pa_outcomes'[k])
                    /\ (pa_outcomes'[k] # "raise"
                           /\ Returned(before[k], pa_outcomes'[k]) # <<>>
                           /\ Returned(before[k], pa_outcomes'[k]) # before[k].summary) =>
                          after[k].summary = Returned(before[k], pa_outcomes'[k]) ]_vars

\* the call for the featured article raised, and an article of a later
\* section still got its new summary
C26_Witness ==
    /\ pa_pc = "returned" /\ pa_available
    /\ Len(selected.featured) = 1
    /\ pa_outcomes[1] = "raise"
    /\ \E k \in 2..Len(pa_outcomes) :
          /\ pa_outcomes[k] = "text"
          /\ BundleList(selected)[k].summary = PageSummary

\* the last successful call of the log made for the email, "none" without one
RECURSIVE LastSuccessful(_, _)
LastSuccessful(log, email) ==
    IF log = <<>> THEN "none"
    ELSE LET call == log[Len(log)]
         IN  IF call.success /\ Strip(Lower(call.email)) = email THEN call.op
             ELSE LastSuccessful(SubSeq(log, 1, Len(log) - 1), email)

LoggedEmails(log) == { Strip(Lower(log[i].email)) : i \in 1..Len(log) }

\* C27: after any subscribe and unsubscribe calls there is at most one record
\* per lower-cased, trimmed email; unsubscribe deletes nothing, so the total
\* never decreases; subscribing an email that has a record reactivates that
\* record and adds none; get_active_subscribers returns exactly the emails
\* whose most recent successful call was subscribe.
C27_OneRecordPerEmailSoftDelete ==
    [][ LET call == sub_log'[Len(sub_log')]
            email == Strip(Lower(call.email))
        IN  /\ \A i, j \in 1..Len(sub_rows') :
                  /\ i # j => sub_rows'[i].email # sub_rows'[j].email
                  /\ sub_rows'[i].email = Strip(Lower(sub_rows'[i].email))
            /\ get_stats(sub_rows').total_subscribers >= get_stats(sub_rows).total_subscribers
            /\ \A i \in 1..Len(sub_rows) : sub_rows'[i].email = sub_rows[i].email
            /\ (call.op = "subscribe" /\ call.success
                   /\ \E i \in 1..Len(sub_rows) : sub_rows[i].email = email) =>
                  /\ Len(sub_rows') = Len(sub_rows)
                  /\ \E i \in 1..Len(sub_rows) :
                        sub_rows'[i].email = email /\ sub_rows'[i].active
            /\ Elements(get_active_subscribers(sub_rows')) =
                  { e \in LoggedEmails(sub_log') : LastSuccessful(sub_log', e) = "subscribe" }
            /\ Len(get_active_subscribers(sub_rows')) =
                  Cardinality(Elements(get_active_subscribers(sub_rows'))) ]_vars

\* an email was subscribed, unsubscribed and subscribed again, in other
\* spellings: one record, active
C27_Witness ==
    /\ Len(sub_log) = 3
    /\ sub_log[1].op = "subscribe" /\ sub_log[1].success
    /\ sub_log[2].op = "unsubscribe" /\ sub_log[2].success
    /\ sub_log[3].op = "subscribe" /\ sub_log[3].success
    /\ sub_log[3].email # sub_log[1].email
    /\ get_stats(sub_rows) = [total_subscribers |-> 1, active_subscribers |-> 1]

\* the given emails that are no address once lower-cased and trimmed: no
\* "@", nothing after the domain name, one letter after the dot, nothing
NoAddress ==
    { <<"a", "b", ".", "i", "o">>, <<"a", "@", "b">>, <<"a", "@", "b", ".", "i">>, <<>> }

\* C28: subscribe with an invalid email returns success False, and
\* unsubscribe of an email without record returns success False with the
\* error "Email not found"; the records and their active flags stay as
\* they were.
C28_ErrorOutcomesChangeNothing ==
    [][ LET call == sub_log'[Len(sub_log')]
        IN  /\ (call.op = "subscribe" /\ call.email \in NoAddress) =>
                  /\ sub_result'.success = FALSE
                  /\ sub_rows' = sub_rows
            /\ (call.op = "unsubscribe"
                   /\ \A i \in 1..Len(sub_rows) :
                         sub_rows[i].email # Strip(Lower(call.email))) =>
                  /\ sub_result' = [success |-> FALSE, error |-> "Email not found"]
                  /\ sub_rows' = sub_rows ]_vars

\* with one active and one inactive record in the table, a subscribe with
\* an invalid email and an unsubscribe of an unknown email both failed
C28_Witness ==
    /\ Len(sub_log) >= 2
    /\ \E k \in 1..Len(sub_log) :
          sub_log[k].op = "subscribe" /\ sub_log[k].email \in NoAddress /\ ~sub_log[k].success
    /\ sub_log[Len(sub_log)].op = "unsubscribe"
    /\ ~sub_log[Len(sub_log)].success
    /\ sub_result = [success |-> FALSE, error |-> "Email not found"]
    /\ Len(sub_rows) >= 1

SendReturned == em_pc = "returned"

\* the exception of Resend tells of the free-tier or testing-mode restriction
RestrictionRaised ==
    /\ ~resend_answer.ok
    /\ \/ Contains(FreeTierPhrase, resend_answer.message)
       \/ Contains(TestingModePhrase, resend_answer.message)

\* C29: with a Resend key Resend is tried first, and its success ends the
\* send without SMTP; a Resend failure that is the free-tier or testing-mode
\* restriction is followed by an SMTP attempt when SMTP credentials are
\* configured; any other Resend failure returns (False, error) without
\* SMTP; without key and without credentials (False, error) is returned and
\* nothing is attempted.
C29_ResendThenSmtpFallback ==
    SendReturned =>
        /\ (resend_api_key /\ resend_answer.ok) =>
              resend_tried /\ ~smtp_tried /\ em_result[1] = TRUE
        /\ (resend_api_key /\ RestrictionRaised /\ username /\ password) =>
              resend_tried /\ smtp_tried
        /\ (resend_api_key /\ ~resend_answer.ok /\ ~RestrictionRaised) =>
              resend_tried /\ ~smtp_tried /\ em_result[1] = FALSE
        /\ (~resend_api_key /\ ~(username /\ password)) =>
              ~resend_tried /\ ~smtp_tried /\ em_result[1] = FALSE

\* C30: NewsletterGenerator.send returns a true value, and takes its success
\* branch, only if EmailSender.send delivered, and returns a false value
\* whenever delivery failed.
C30_SendReportsDelivery ==
    nl_pc = "returned" =>
        /\ Truthy(nl_result) => em_result[1] = TRUE
        /\ nl_branch = "success" => em_result[1] = TRUE
        /\ em_result[1] = FALSE => ~Truthy(nl_result)

====
